---- MODULE Spec2Model ----
(***************************************************************************)
(* A model of pycfg: context-free grammars (cfg/cfg.py), the Chomsky       *)
(* normal form transformer (cfg/cnf.py) and the parsing algorithms of Aho  *)
(* & Ullman (cfg/aho_ullman.py): top-down and bottom-up backtrack parsing, *)
(* Cocke-Younger-Kasami, Earley, and the parse-tree builders.              *)
(*                                                                         *)
(* Python lists are TLA+ sequences (1-indexed); 1-indexed Seq(...) lists   *)
(* of the source map to them directly.  Symbols are records; record        *)
(* equality is Symbol.__eq__ on the canonical representation below.        *)
(***************************************************************************)
EXTENDS Integers, Sequences, FiniteSets, TLC

VARIABLES
    alg,            \* the function under execution
    G, w,           \* its arguments: the grammar (list of productions) and the input
    pc,             \* the position in its code
    result,         \* what the call returned or raised
    s, i, alpha, beta,      \* backtrack parsers: the configuration (s, i, alpha, beta)
    productions, removed_rules, new_rules, proxy_rules, added,  \* ChomskyNormalForm locals
    tree,           \* the tree built by LeftParse.tree() / RightParse.tree()
    check, T,       \* cocke_younger_kasami_algorithm: its flag and the parse table
    I, j,           \* earley_parse: the parse lists; j: the list (CYK: line) in work
    stack, pi,      \* right_parse_from_parse_lists: the calls of R in progress, the parse
    args,           \* the arguments of a constructor or a comparison
    grammar,        \* the ContextFreeGrammar object a constructor built
    Gp, states, transitions,    \* slr.Automaton: _grammar (augmented), _states, transitions
    first_sets, rules,  \* slr.FirstSetTable: table, and the rules of the pass in work
    follow_sets,    \* slr.FollowSetTable: table
    action, goto,   \* slr.ParsingTable: _action, _goto
    table,          \* table.ParseTable built by table.get_slr_table
    written         \* whether the call in progress has written to its stream out

parserVars == <<s, i, alpha, beta>>

cnfVars == <<productions, removed_rules, new_rules, proxy_rules, added>>

slrVars ==
    <<args, grammar, Gp, states, transitions, first_sets, rules, follow_sets, action, goto, table>>

chartVars == <<check, T, I, j, stack, pi, slrVars>>

vars == <<alg, G, w, pc, result, parserVars, cnfVars, tree, chartVars, written>>

(***************************************************************************)
(* Bounds of the model.                                                    *)
(***************************************************************************)
MaxRules == 2
MaxRhs == 2
MaxLen == 2
MaxAlpha == 12

(***************************************************************************)
(* Generic sequence helpers (Python list operations).                      *)
(***************************************************************************)
Front(q) == SubSeq(q, 1, Len(q) - 1)

Last(q) == q[Len(q)]

Drop(q, k) == SubSeq(q, k + 1, Len(q))

Take(q, k) == SubSeq(q, 1, k)

Range(q) == {q[k] : k \in 1..Len(q)}

Contains(q, x) == \E k \in 1..Len(q) : q[k] = x

\* list.index(x) shifted by one (ReindexedList.index): the first position.
IndexOf(q, x) == CHOOSE k \in 1..Len(q) : q[k] = x /\ \A m \in 1..(k - 1) : q[m] # x

RECURSIVE Reverse(_)
Reverse(q) == IF q = <<>> THEN <<>> ELSE Append(Reverse(Tail(q)), Head(q))

RECURSIVE FilterSeq(_, _)
\* [x for x in q if keep[x]] where keep is a set of kept values
FilterSeq(q, keep) ==
    IF q = <<>> THEN <<>>
    ELSE IF Head(q) \in keep THEN <<Head(q)>> \o FilterSeq(Tail(q), keep)
         ELSE FilterSeq(Tail(q), keep)

(***************************************************************************)
(* Symbols (cfg.py Symbol, Nonterminal, SubscriptedNonterminal, Terminal,  *)
(* Marker).  name is the identifier as a sequence of characters.           *)
(***************************************************************************)
Nonterminal(n) == [cls |-> "Nonterminal", name |-> n, sub |-> 0]

SubscriptedNonterminal(n, k) == [cls |-> "SubscriptedNonterminal", name |-> n, sub |-> k]

Terminal(n) == [cls |-> "Terminal", name |-> n, sub |-> 0]

Marker(n) == [cls |-> "Marker", name |-> n, sub |-> 0]

\* isinstance(x, Nonterminal) / x.is_nonterminal()
IsNonterminal(x) == x.cls \in {"Nonterminal", "SubscriptedNonterminal", "PrimedNonterminal"}

\* isinstance(x, Terminal) / x.is_terminal(): Marker and Epsilon derive from Terminal
IsTerminal(x) == x.cls \in {"Terminal", "Marker", "Epsilon"}

ProductionRule(l, r) == [left_side |-> l, right_side |-> r]

Dollar == Marker(<<"$">>)

(***************************************************************************)
(* ContextFreeGrammar built from a production list: the grammar is the     *)
(* list; the start is the left side of the first rule.                     *)
(***************************************************************************)
start(g) == g[1].left_side

nonterminals(g) ==
    {g[k].left_side : k \in 1..Len(g)} \cup
    {x \in UNION {Range(g[k].right_side) : k \in 1..Len(g)} : IsNonterminal(x)}

terminals(g) ==
    {x \in UNION {Range(g[k].right_side) : k \in 1..Len(g)} : IsTerminal(x)}

has_empty_rules(g) == \E k \in 1..Len(g) : g[k].right_side = <<>>

(***************************************************************************)
(* The grammars and inputs the model draws from.                           *)
(***************************************************************************)
SymS == Nonterminal(<<"S">>)

SymA == Nonterminal(<<"A">>)

Syma == Terminal(<<"a">>)

Symb == Terminal(<<"b">>)

NTs == {SymS, SymA}

Ts == {Syma, Symb}

SeqsUpTo(set, k) == UNION {[1..m -> set] : m \in 0..k}

RuleSet(k) == {ProductionRule(l, r) : l \in NTs, r \in SeqsUpTo(NTs \cup Ts, k)}

\* the grammars of m rules with right sides of at most k symbols
Grammars(m, k) == [1..m -> RuleSet(k)]

Inputs(k) == SeqsUpTo(Ts, k)

(***************************************************************************)
(* util/digraph.py: cycle detection by depth-first search with the marks   *)
(* visiting / visited, started from every vertex.                          *)
(***************************************************************************)
RECURSIVE SetToSeq(_)
SetToSeq(set) ==
    IF set = {} THEN <<>>
    ELSE LET x == CHOOSE y \in set : TRUE IN <<x>> \o SetToSeq(set \ {x})

RECURSIVE visit(_, _, _, _)
\* is_cyclic_multi.visit(nodes): edges maps a vertex to its successor set
visit(nodes, visiting, visited, edges) ==
    IF nodes = <<>> THEN [found |-> FALSE, visiting |-> visiting, visited |-> visited]
    ELSE LET node == Head(nodes) IN
         IF node \in visiting
         THEN [found |-> TRUE, visiting |-> visiting, visited |-> visited]
         ELSE IF node \in visited
         THEN visit(Tail(nodes), visiting, visited, edges)
         ELSE LET r == visit(SetToSeq(edges[node]), visiting \cup {node}, visited, edges) IN
              IF r.found THEN r
              ELSE visit(Tail(nodes), visiting, r.visited \cup {node}, edges)

is_cyclic_multi(roots, edges) == visit(SetToSeq(roots), {}, {}, edges).found

\* ContextFreeGrammar._detect_cycle: minlen/exact select the rules that add
\* the edge left_side -> right_side[0]
EdgeRules(g, exact) ==
    {k \in 1..Len(g) :
        /\ IF exact THEN Len(g[k].right_side) = 1 ELSE Len(g[k].right_side) >= 1
        /\ IsNonterminal(g[k].right_side[1])}

detect_cycle(g, exact) ==
    LET rs == EdgeRules(g, exact)
        vs == {g[k].left_side : k \in rs} \cup {g[k].right_side[1] : k \in rs}
        edges == [v \in vs |-> {g[k].right_side[1] : k \in {m \in rs : g[m].left_side = v}}]
    IN is_cyclic_multi(vs, edges)

left_recursive(g) == detect_cycle(g, FALSE)

cyclic(g) == detect_cycle(g, TRUE)

\* _check_args looking at the first input symbol only
check_args_first_only(g, u) == u = <<>> \/ u[1] \in terminals(g)

\* _check_args: every input symbol is a terminal of the grammar
check_args_ok(g, u) == \A k \in 1..Len(u) : u[k] \in terminals(g)

(***************************************************************************)
(* Reference semantics used by the properties: derivability of substrings  *)
(* of an input u, as the least set R of triples <<A, p, q>> such that       *)
(* A =>+ u[p..q-1].                                                        *)
(***************************************************************************)
SpanSym(X, p, q, R, u) ==
    IF IsNonterminal(X) THEN <<X, p, q>> \in R
    ELSE q = p + 1 /\ p <= Len(u) /\ u[p] = X

RECURSIVE SpanSeq(_, _, _, _, _)
SpanSeq(rhs, p, q, R, u) ==
    IF rhs = <<>> THEN p = q
    ELSE \E m \in p..q : SpanSym(Head(rhs), p, m, R, u) /\ SpanSeq(Tail(rhs), m, q, R, u)

DerivStep(R, g, u) ==
    R \cup {t \in nonterminals(g) \X (1..(Len(u) + 1)) \X (1..(Len(u) + 1)) :
              /\ t[2] <= t[3]
              /\ \E k \in 1..Len(g) :
                    g[k].left_side = t[1] /\ SpanSeq(g[k].right_side, t[2], t[3], R, u)}

RECURSIVE DerivFix(_, _, _)
DerivFix(R, g, u) ==
    LET R2 == DerivStep(R, g, u) IN IF R2 = R THEN R ELSE DerivFix(R2, g, u)

DerivesSpan(g, u) == DerivFix({}, g, u)

\* w is in L(G)
InLanguage(g, u) == <<start(g), 1, Len(u) + 1>> \in DerivesSpan(g, u)

\* the nullable nonterminals of g
Nullable(g) == {t[1] : t \in DerivesSpan(g, <<>>)}

FirstNonterminalPos(form) ==
    IF \E k \in 1..Len(form) : IsNonterminal(form[k])
    THEN CHOOSE k \in 1..Len(form) :
            IsNonterminal(form[k]) /\ \A m \in 1..(k - 1) : ~IsNonterminal(form[m])
    ELSE 0

LastNonterminalPos(form) ==
    IF \E k \in 1..Len(form) : IsNonterminal(form[k])
    THEN CHOOSE k \in 1..Len(form) :
            IsNonterminal(form[k]) /\ \A m \in (k + 1)..Len(form) : ~IsNonterminal(form[m])
    ELSE 0

RECURSIVE Derivation(_, _, _, _)
\* apply the rules numbered in parse, in order, each to the leftmost
\* (left = TRUE) or rightmost nonterminal of the sentential form
Derivation(g, form, parse, left) ==
    IF parse = <<>> THEN [ok |-> TRUE, form |-> form]
    ELSE LET pos == IF left THEN FirstNonterminalPos(form) ELSE LastNonterminalPos(form)
             n == Head(parse)
         IN IF pos = 0 \/ n \notin 1..Len(g) THEN [ok |-> FALSE, form |-> form]
            ELSE IF g[n].left_side # form[pos] THEN [ok |-> FALSE, form |-> form]
            ELSE Derivation(g, Take(form, pos - 1) \o g[n].right_side \o Drop(form, pos),
                            Tail(parse), left)

IsLeftParse(g, parse, u) ==
    LET d == Derivation(g, <<start(g)>>, parse, TRUE) IN d.ok /\ d.form = u

\* parse lists the rules of a rightmost derivation in derivation order
IsRightmostDerivation(g, parse, u) ==
    LET d == Derivation(g, <<start(g)>>, parse, FALSE) IN d.ok /\ d.form = u

(***************************************************************************)
(* Results of a call: kind is "none" while running, "parse" for a returned *)
(* list of rule numbers, else the name of the exception raised.            *)
(***************************************************************************)
NoResult == [kind |-> "none", parse |-> <<>>]

Returned(p) == [kind |-> "parse", parse |-> p]

Raised(e) == [kind |-> e, parse |-> <<>>]

\* values of the variables a call does not use
CnfIdle ==
    /\ productions = <<>> /\ removed_rules = <<>> /\ new_rules = <<>>
    /\ proxy_rules = <<>> /\ added = <<>>

ParserIdle == s = "q" /\ i = 0 /\ alpha = <<>> /\ beta = <<>>

NoTree == [value |-> Dollar, subtrees |-> <<>>]

SlrIdle ==
    /\ args = <<>> /\ grammar = <<>> /\ Gp = <<>> /\ states = <<>> /\ transitions = <<>>
    /\ first_sets = <<>> /\ rules = <<>> /\ follow_sets = <<>>
    /\ action = <<>> /\ goto = <<>> /\ table = <<>>

ChartIdle ==
    /\ check = TRUE /\ T = <<>> /\ I = <<>> /\ j = 0 /\ stack = <<>> /\ pi = <<>>
    /\ SlrIdle

(***************************************************************************)
(* aho_ullman.topdown_backtrack_parse                                      *)
(***************************************************************************)
\* I[A]: the alternates of A, in the order of the productions
Alternates(g, A) ==
    LET RECURSIVE alts(_)
        alts(k) == IF k > Len(g) THEN <<>>
                   ELSE IF g[k].left_side = A THEN <<g[k].right_side>> \o alts(k + 1)
                   ELSE alts(k + 1)
    IN alts(1)

\* an entry of the pushdown list L1: a terminal (alt = 0) or the index (A, j)
L1Term(a) == [sym |-> a, alt |-> 0]

L1Alt(A, jx) == [sym |-> A, alt |-> jx]

Config(cs, ci, calpha, cbeta) ==
    [kind |-> "config", s |-> cs, i |-> ci, alpha |-> calpha, beta |-> cbeta]

NoConfig == [kind |-> "None", s |-> "", i |-> 0, alpha |-> <<>>, beta |-> <<>>]

RaisedConfig(e) == [kind |-> e, s |-> "", i |-> 0, alpha |-> <<>>, beta |-> <<>>]

\* goes_to with every terminal on L2 taken as matched, whatever the input
goes_to_without_input_test(g, u, cs, ci, calpha, cbeta) ==
    LET n == Len(u)
        S == start(g)
    IN
    \* Successful conclusion
    IF cs = "q" /\ ci = n + 1 /\ Len(cbeta) = 1 /\ cbeta[1] = Dollar
    THEN Config("t", ci, calpha, <<>>)
    \* Tree expansion
    ELSE IF cs = "q" /\ Len(cbeta) > 0 /\ IsNonterminal(cbeta[1])
    THEN IF Len(Alternates(g, cbeta[1])) < 1 THEN RaisedConfig("IndexError")
         ELSE Config("q", ci, Append(calpha, L1Alt(cbeta[1], 1)),
                     Alternates(g, cbeta[1])[1] \o Tail(cbeta))
    \* Testing match of input symbol
    ELSE IF cs = "q" /\ Len(cbeta) > 0 /\ IsTerminal(cbeta[1])
    THEN Config("q", ci + 1, Append(calpha, L1Term(cbeta[1])), Tail(cbeta))
    \* Backtracking on input
    ELSE IF cs = "b" /\ Len(calpha) > 0 /\ Last(calpha).alt = 0
    THEN Config("b", ci - 1, Front(calpha), <<Last(calpha).sym>> \o cbeta)
    \* Try next alternate
    ELSE IF cs = "b" /\ Len(calpha) > 0
    THEN LET A == Last(calpha).sym
             jx == Last(calpha).alt
             gammaj == Alternates(g, A)[jx]
         IN IF Len(cbeta) >= Len(gammaj) /\ Take(cbeta, Len(gammaj)) = gammaj
            THEN IF jx + 1 <= Len(Alternates(g, A))
                 THEN Config("q", ci, Append(Front(calpha), L1Alt(A, jx + 1)),
                             Alternates(g, A)[jx + 1] \o Drop(cbeta, Len(gammaj)))
                 ELSE IF ci = 1 /\ A = S /\ Len(Alternates(g, S)) >= jx
                 THEN NoConfig
                 ELSE Config("b", ci, Front(calpha), <<A>> \o Drop(cbeta, Len(gammaj)))
            ELSE NoConfig
    ELSE NoConfig

goes_to(g, u, cs, ci, calpha, cbeta) ==
    LET n == Len(u)
        S == start(g)
    IN
    \* Successful conclusion
    IF cs = "q" /\ ci = n + 1 /\ Len(cbeta) = 1 /\ cbeta[1] = Dollar
    THEN Config("t", ci, calpha, <<>>)
    \* Tree expansion
    ELSE IF cs = "q" /\ Len(cbeta) > 0 /\ IsNonterminal(cbeta[1])
    THEN IF Len(Alternates(g, cbeta[1])) < 1 THEN RaisedConfig("IndexError")
         ELSE Config("q", ci, Append(calpha, L1Alt(cbeta[1], 1)),
                     Alternates(g, cbeta[1])[1] \o Tail(cbeta))
    \* Testing match of input symbol
    ELSE IF cs = "q" /\ Len(cbeta) > 0 /\ IsTerminal(cbeta[1])
    THEN IF ci <= n /\ cbeta[1] = u[ci]
         THEN Config("q", ci + 1, Append(calpha, L1Term(cbeta[1])), Tail(cbeta))
         ELSE Config("b", ci, calpha, cbeta)
    \* Backtracking on input
    ELSE IF cs = "b" /\ Len(calpha) > 0 /\ Last(calpha).alt = 0
    THEN Config("b", ci - 1, Front(calpha), <<Last(calpha).sym>> \o cbeta)
    \* Try next alternate
    ELSE IF cs = "b" /\ Len(calpha) > 0
    THEN LET A == Last(calpha).sym
             jx == Last(calpha).alt
             gammaj == Alternates(g, A)[jx]
         IN IF Len(cbeta) >= Len(gammaj) /\ Take(cbeta, Len(gammaj)) = gammaj
            THEN IF jx + 1 <= Len(Alternates(g, A))
                 THEN Config("q", ci, Append(Front(calpha), L1Alt(A, jx + 1)),
                             Alternates(g, A)[jx + 1] \o Drop(cbeta, Len(gammaj)))
                 ELSE IF ci = 1 /\ A = S /\ Len(Alternates(g, S)) >= jx
                 THEN NoConfig
                 ELSE Config("b", ci, Front(calpha), <<A>> \o Drop(cbeta, Len(gammaj)))
            ELSE NoConfig
    ELSE NoConfig

\* h written with the number of the alternate among those of its
\* nonterminal in place of the number of the production
h_alternate_numbers(g, calpha) ==
    LET RECURSIVE hh(_)
        hh(q) == IF q = <<>> THEN <<>>
                 ELSE IF Head(q).alt = 0 THEN hh(Tail(q))
                 ELSE <<Head(q).alt>> \o hh(Tail(q))
    IN hh(calpha)

\* h(alpha): the production numbers of the alternates on L1
h_topdown(g, calpha) ==
    LET RECURSIVE hh(_)
        hh(q) == IF q = <<>> THEN <<>>
                 ELSE IF Head(q).alt = 0 THEN hh(Tail(q))
                 ELSE <<IndexOf(g, ProductionRule(Head(q).sym,
                                   Alternates(g, Head(q).sym)[Head(q).alt]))>> \o hh(Tail(q))
    IN hh(calpha)

\* entry: _check_args and the left-recursion check, then configuration (q, 1, e, S$)
TDEntry ==
    /\ alg = "topdown" /\ pc = "entry"
    /\ IF ~check_args_ok(G, w) \/ left_recursive(G)
       THEN /\ pc' = "done"
            /\ result' = Raised("ValueError")
            /\ UNCHANGED <<s, i, alpha, beta, written>>
       ELSE /\ pc' = "run"
            /\ s' = "q" /\ i' = 1 /\ alpha' = <<>> /\ beta' = <<start(G), Dollar>>
            /\ written' = TRUE
            /\ UNCHANGED result
    /\ UNCHANGED <<alg, G, w>>
    /\ UNCHANGED <<cnfVars, tree, chartVars>>

\* one iteration of the loop of Step 1: the next configuration
TDStep ==
    /\ alg = "topdown" /\ pc = "run"
    /\ Len(alpha) < MaxAlpha
    /\ LET c == goes_to(G, w, s, i, alpha, beta) IN
       /\ c.kind = "config"
       /\ s' = c.s /\ i' = c.i /\ alpha' = c.alpha /\ beta' = c.beta
    /\ UNCHANGED <<alg, G, w, pc, result>>
    /\ UNCHANGED <<cnfVars, tree, chartVars>>
    /\ UNCHANGED written

\* no next configuration (Step 2), or an exception out of goes_to
TDFinish ==
    /\ alg = "topdown" /\ pc = "run"
    /\ Len(alpha) < MaxAlpha
    /\ LET c == goes_to(G, w, s, i, alpha, beta) IN
       /\ c.kind # "config"
       /\ result' = IF c.kind # "None" THEN Raised(c.kind)
                    ELSE IF s = "t" /\ i = Len(w) + 1 /\ Len(beta) = 0
                    THEN Returned(h_topdown(G, alpha))
                    ELSE Raised("ParseError")
    /\ pc' = "done"
    /\ UNCHANGED <<alg, G, w, s, i, alpha, beta>>
    /\ UNCHANGED <<cnfVars, tree, chartVars>>
    /\ UNCHANGED written

InitTD ==
    /\ alg = "topdown"
    /\ \E m \in 1..MaxRules : G \in Grammars(m, MaxRhs)
    /\ start(G) = SymS
    /\ w \in Inputs(MaxLen)
    /\ pc = "entry"
    /\ s = "q" /\ i = 1 /\ alpha = <<>> /\ beta = <<>>
    /\ result = NoResult
    /\ CnfIdle /\ tree = NoTree /\ ChartIdle
    /\ written = FALSE

NextTD == TDEntry \/ TDStep \/ TDFinish


(***************************************************************************)
(* aho_ullman.bottomup_backtrack_parse.  L2 (beta) holds rule numbers and  *)
(* the shift symbol 's', modelled as 0.                                    *)
(***************************************************************************)
shift == 0

endswith(ss, ww) ==
    LET nn == Len(ww) IN
    IF nn > Len(ss) THEN FALSE
    ELSE IF nn = 0 THEN ss = ww
    ELSE SubSeq(ss, Len(ss) - nn + 1, Len(ss)) = ww

\* the first rule numbered from0 or more whose right side is a suffix; 0 is None
firstsuffix(g, calpha, from0) ==
    IF \E k \in from0..Len(g) : endswith(calpha, g[k].right_side)
    THEN CHOOSE k \in from0..Len(g) :
            /\ endswith(calpha, g[k].right_side)
            /\ \A m \in from0..(k - 1) : ~endswith(calpha, g[m].right_side)
    ELSE 0

\* h(beta): the entries of L2 that are rule numbers
h_bottomup(cbeta) ==
    LET RECURSIVE hh(_)
        hh(q) == IF q = <<>> THEN <<>>
                 ELSE IF Head(q) = shift THEN hh(Tail(q))
                 ELSE <<Head(q)>> \o hh(Tail(q))
    IN hh(cbeta)

\* entry: _check_args, has_empty_rules, cyclic; then configuration (q, 1, $, e)
BUEntry ==
    /\ alg = "bottomup" /\ pc = "entry"
    /\ IF ~check_args_ok(G, w) \/ has_empty_rules(G) \/ cyclic(G)
       THEN /\ pc' = "done"
            /\ result' = Raised("ValueError")
            /\ UNCHANGED <<s, i, alpha, beta, written>>
       ELSE /\ pc' = "step1"
            /\ s' = "q" /\ i' = 1 /\ alpha' = <<Dollar>> /\ beta' = <<>>
            /\ written' = TRUE
            /\ UNCHANGED result
    /\ UNCHANGED <<alg, G, w>>
    /\ UNCHANGED <<cnfVars, tree, chartVars>>

\* Step 1: attempt to reduce
BUReduce ==
    /\ alg = "bottomup" /\ pc = "step1"
    /\ LET rule_number == firstsuffix(G, alpha, 1) IN
       /\ s = "q" /\ rule_number # 0
       /\ LET nn == Len(G[rule_number].right_side) IN
          alpha' = Take(alpha, Len(alpha) - nn) \o <<G[rule_number].left_side>>
       /\ beta' = <<rule_number>> \o beta
    /\ UNCHANGED <<alg, G, w, pc, s, i, result>>
    /\ UNCHANGED <<cnfVars, tree, chartVars>>
    /\ UNCHANGED written

\* Step 2: shift
BUShift ==
    /\ alg = "bottomup" /\ pc = "step1"
    /\ ~(s = "q" /\ firstsuffix(G, alpha, 1) # 0)
    /\ s = "q" /\ i # Len(w) + 1
    /\ alpha' = Append(alpha, w[i])
    /\ beta' = <<shift>> \o beta
    /\ i' = i + 1
    /\ UNCHANGED <<alg, G, w, pc, s, result>>
    /\ UNCHANGED <<cnfVars, tree, chartVars>>
    /\ UNCHANGED written

\* Step 3: accept
BUAccept ==
    /\ alg = "bottomup" /\ pc = "step1"
    /\ ~(s = "q" /\ firstsuffix(G, alpha, 1) # 0)
    /\ ~(s = "q" /\ i # Len(w) + 1)
    /\ s = "q" /\ i = Len(w) + 1 /\ alpha = <<Dollar, start(G)>>
    /\ s' = "t"
    /\ result' = Returned(h_bottomup(beta))
    /\ pc' = "done"
    /\ UNCHANGED <<alg, G, w, i, alpha, beta>>
    /\ UNCHANGED <<cnfVars, tree, chartVars>>
    /\ UNCHANGED written

\* Step 4: enter backtracking mode
BUEnterBacktrack ==
    /\ alg = "bottomup" /\ pc = "step1"
    /\ ~(s = "q" /\ firstsuffix(G, alpha, 1) # 0)
    /\ ~(s = "q" /\ i # Len(w) + 1)
    /\ ~(s = "q" /\ i = Len(w) + 1 /\ alpha = <<Dollar, start(G)>>)
    /\ IF i = Len(w) + 1
       THEN s' = "b" /\ pc' = "step5" /\ UNCHANGED result
       ELSE s' = s /\ pc' = "done" /\ result' = Raised("AssertionError")
    /\ UNCHANGED <<alg, G, w, i, alpha, beta>>
    /\ UNCHANGED <<cnfVars, tree, chartVars>>
    /\ UNCHANGED written

BUCanUndoReduction ==
    /\ s = "b" /\ Len(alpha) > 0 /\ IsNonterminal(Last(alpha))
    /\ Len(beta) > 0 /\ beta[1] # shift

BUCanUndoShift ==
    /\ s = "b" /\ Len(alpha) > 0 /\ IsTerminal(Last(alpha))
    /\ Len(beta) > 0 /\ beta[1] = shift

\* Step 5 (a), (b), (c): backtrack over the reduction on top of L2
BUBacktrack ==
    /\ alg = "bottomup" /\ pc = "step5"
    /\ BUCanUndoReduction
    /\ LET A == Last(alpha)
           jx == beta[1]
           tempalpha == Front(alpha) \o G[jx].right_side
           k == firstsuffix(G, tempalpha, jx + 1)
       IN
       /\ G[jx].left_side = A
       /\ IF k # 0
          THEN /\ s' = "q"
               /\ alpha' = Take(tempalpha, Len(tempalpha) - Len(G[k].right_side))
                             \o <<G[k].left_side>>
               /\ beta' = <<k>> \o Tail(beta)
               /\ i' = i
               /\ pc' = "step1"
          ELSE IF i = Len(w) + 1
          THEN /\ alpha' = tempalpha
               /\ beta' = Tail(beta)
               /\ UNCHANGED <<s, i, pc>>
          ELSE /\ s' = "q"
               /\ alpha' = Append(tempalpha, w[i])
               /\ i' = i + 1
               /\ beta' = <<shift>> \o Tail(beta)
               /\ pc' = "step1"
    /\ UNCHANGED <<alg, G, w, result>>
    /\ UNCHANGED <<cnfVars, tree, chartVars>>
    /\ UNCHANGED written

\* Step 5 (d): undo a shift
BUUnshift ==
    /\ alg = "bottomup" /\ pc = "step5"
    /\ ~BUCanUndoReduction
    /\ BUCanUndoShift
    /\ i' = i - 1
    /\ alpha' = Front(alpha)
    /\ beta' = Tail(beta)
    /\ UNCHANGED <<alg, G, w, pc, s, result>>
    /\ UNCHANGED <<cnfVars, tree, chartVars>>
    /\ UNCHANGED written

\* nothing applies: raise ParseError('error')
BUFail ==
    /\ alg = "bottomup" /\ pc = "step5"
    /\ \/ ~BUCanUndoReduction /\ ~BUCanUndoShift
       \/ BUCanUndoReduction /\ G[beta[1]].left_side # Last(alpha)
    /\ result' = Raised("ParseError")
    /\ pc' = "done"
    /\ UNCHANGED <<alg, G, w, s, i, alpha, beta>>
    /\ UNCHANGED <<cnfVars, tree, chartVars>>
    /\ UNCHANGED written

InitBU ==
    /\ alg = "bottomup"
    /\ \E m \in 1..MaxRules : G \in Grammars(m, MaxRhs)
    /\ start(G) = SymS
    /\ w \in Inputs(MaxLen)
    /\ pc = "entry"
    /\ s = "q" /\ i = 1 /\ alpha = <<>> /\ beta = <<>>
    /\ result = NoResult
    /\ CnfIdle /\ tree = NoTree /\ ChartIdle
    /\ written = FALSE

NextBU ==
    BUEntry \/ BUReduce \/ BUShift \/ BUAccept \/ BUEnterBacktrack
        \/ BUBacktrack \/ BUUnshift \/ BUFail

(***************************************************************************)
(* LeftParse.tree(), RightParse.tree() and Tree.iter_leaves().  A tree is  *)
(* a record of its value and the list of its subtrees.  The index ix into  *)
(* the parse is the index of the Python list: from 0, negative from the    *)
(* end.                                                                    *)
(***************************************************************************)
ParseTree(value, subtrees) == [value |-> value, subtrees |-> subtrees]

RECURSIVE left_tree(_, _, _)
\* LeftParse._tree(i): the tree, the next index, and whether the asserts held
left_tree(g, parse, ix) ==
    LET rule == g[parse[ix + 1]]
        RECURSIVE children(_, _)
        children(rs, k) ==
            IF rs = <<>> THEN [children |-> <<>>, i |-> k, ok |-> TRUE]
            ELSE IF IsNonterminal(Head(rs))
            THEN LET sub == left_tree(g, parse, k)
                     rest == children(Tail(rs), sub.i)
                 IN [children |-> <<sub.tree>> \o rest.children, i |-> rest.i,
                     ok |-> sub.ok /\ sub.tree.value = Head(rs) /\ rest.ok]
            ELSE LET rest == children(Tail(rs), k)
                 IN [children |-> <<ParseTree(Head(rs), <<>>)>> \o rest.children,
                     i |-> rest.i, ok |-> rest.ok]
        c == children(rule.right_side, ix + 1)
    IN [tree |-> ParseTree(rule.left_side, c.children), i |-> c.i, ok |-> c.ok]

RECURSIVE right_tree(_, _, _)
\* RightParse._tree(i), over reversed(rule.right_side)
right_tree(g, parse, ix) ==
    LET rule == g[parse[Len(parse) + 1 + ix]]
        RECURSIVE children(_, _)
        children(rs, k) ==
            IF rs = <<>> THEN [children |-> <<>>, i |-> k, ok |-> TRUE]
            ELSE IF IsNonterminal(Last(rs))
            THEN LET sub == right_tree(g, parse, k)
                     rest == children(Front(rs), sub.i)
                 IN [children |-> Append(rest.children, sub.tree), i |-> rest.i,
                     ok |-> sub.ok /\ sub.tree.value = Last(rs) /\ rest.ok]
            ELSE LET rest == children(Front(rs), k)
                 IN [children |-> Append(rest.children, ParseTree(Last(rs), <<>>)),
                     i |-> rest.i, ok |-> rest.ok]
        c == children(rule.right_side, ix - 1)
    IN [tree |-> ParseTree(rule.left_side, c.children), i |-> c.i, ok |-> c.ok]

RECURSIVE iter_leaves(_)
\* a node without subtrees yields its value
iter_leaves(tr) ==
    IF tr.subtrees = <<>> THEN <<tr.value>>
    ELSE LET RECURSIVE from(_)
             from(k) == IF k > Len(tr.subtrees) THEN <<>>
                        ELSE iter_leaves(tr.subtrees[k]) \o from(k + 1)
         IN from(1)

\* LeftParse(G, parse).tree() on the parse topdown_backtrack_parse returned
LeftParseTree ==
    /\ alg = "topdown" /\ pc = "done" /\ result.kind = "parse"
    /\ LET r == left_tree(G, result.parse, 0) IN
       IF r.ok /\ r.tree.value = start(G) /\ r.i = Len(result.parse)
       THEN tree' = r.tree /\ UNCHANGED result
       ELSE result' = Raised("AssertionError") /\ UNCHANGED tree
    /\ pc' = "tree"
    /\ UNCHANGED <<alg, G, w, parserVars, cnfVars, chartVars>>
    /\ UNCHANGED written

\* RightParse(G, parse).tree() on the parse right_parse_from_parse_lists
\* returned, or on the reverse of the parse bottomup_backtrack_parse returned
RightParseTree ==
    /\ alg \in {"bottomup", "right_parse"} /\ pc = "done" /\ result.kind = "parse"
    /\ LET parse == IF alg = "bottomup" THEN Reverse(result.parse) ELSE result.parse
           r == right_tree(G, parse, -1) IN
       IF r.ok /\ r.tree.value = start(G) /\ r.i = -Len(parse) - 1
       THEN tree' = r.tree /\ UNCHANGED result
       ELSE result' = Raised("AssertionError") /\ UNCHANGED tree
    /\ pc' = "tree"
    /\ UNCHANGED <<alg, G, w, parserVars, cnfVars, chartVars>>
    /\ UNCHANGED written

(***************************************************************************)
(* The two backtrack parsers on every grammar and input of the bounds, and *)
(* the trees of the parses they return.                                    *)
(***************************************************************************)
Init == InitTD \/ InitBU

Next == NextTD \/ NextBU \/ LeftParseTree \/ RightParseTree

Spec == Init /\ [][Next]_vars

(***************************************************************************)
(* Properties of the backtrack parsers.                                    *)
(***************************************************************************)
Done == pc = "done"

\* C1: on a grammar for which left_recursive() is false and an input made of
\* terminals of the grammar, topdown_backtrack_parse ends, and ends either by
\* returning a left parse of w (w in L(G)) or by raising ParseError (w not in
\* L(G)); it raises nothing else and never runs on without a result.
C1_TopDownOutcome ==
    (alg = "topdown" /\ check_args_ok(G, w) /\ ~left_recursive(G)) =>
        /\ Done =>
              IF InLanguage(G, w)
              THEN result.kind = "parse" /\ IsLeftParse(G, result.parse, w)
              ELSE result.kind = "ParseError"
        /\ pc = "run" => Len(alpha) < MaxAlpha

\* C2: on a grammar with no e-production and no cycle and an input made of
\* terminals of the grammar, bottomup_backtrack_parse returns the rule numbers
\* of a right parse in reverse (a rightmost derivation of w from the start
\* symbol) when w is in L(G), and raises ParseError when it is not.
C2_BottomUpOutcome ==
    (alg = "bottomup" /\ check_args_ok(G, w) /\ ~has_empty_rules(G) /\ ~cyclic(G) /\ Done) =>
        IF InLanguage(G, w)
        THEN result.kind = "parse" /\ IsRightmostDerivation(G, result.parse, w)
        ELSE result.kind = "ParseError"

\* C3: a list of rule numbers returned by either backtrack parser derives
\* exactly w from the start symbol: leftmost for the top-down result,
\* rightmost for the bottom-up result read in the returned order.
C3_ParseDerivesInput ==
    (Done /\ result.kind = "parse") =>
        IF alg = "topdown" THEN IsLeftParse(G, result.parse, w)
        ELSE IsRightmostDerivation(G, result.parse, w)

C3_Witness ==
    /\ alg = "topdown" /\ Done /\ result.kind = "parse"
    /\ Len(w) = MaxLen /\ Len(result.parse) >= 2
    /\ has_empty_rules(G)

(***************************************************************************)
(* String forms of symbols (Nonterminal.__str__, Subscripted.__str__,      *)
(* Terminal.__str__) as sequences of characters, and str.upper().          *)
(***************************************************************************)
LowerChars == {"a", "b"}

UpperChars == {"A", "B", "C", "S"}

UpperOf(c) == IF c = "a" THEN "A" ELSE IF c = "b" THEN "B" ELSE c

\* name.isupper(): some cased character, and no lowercase one
isupper(name) ==
    /\ \E k \in 1..Len(name) : name[k] \in UpperChars
    /\ \A k \in 1..Len(name) : name[k] \notin LowerChars

upper(name) == [k \in 1..Len(name) |-> UpperOf(name[k])]

Digits == <<"0", "1", "2", "3", "4", "5", "6", "7", "8", "9">>

RECURSIVE IntStr(_)
\* str(n) for an integer n >= 0
IntStr(n) == IF n < 10 THEN <<Digits[n + 1]>> ELSE IntStr(n \div 10) \o <<Digits[(n % 10) + 1]>>

NonterminalStr(x) ==
    IF Len(x.name) # 1 \/ ~isupper(x.name) THEN <<"<">> \o x.name \o <<">">> ELSE x.name

TerminalStr(x) ==
    IF Len(x.name) # 1 \/ isupper(x.name) THEN <<"\"">> \o x.name \o <<"\"">> ELSE x.name

Str(x) ==
    IF x.cls = "Nonterminal" THEN NonterminalStr(x)
    ELSE IF x.cls = "SubscriptedNonterminal" THEN NonterminalStr(x) \o IntStr(x.sub)
    ELSE TerminalStr(x)

\* cfg._next_unused(original, taken, start, SubscriptedNonterminal)
RECURSIVE next_unused_from(_, _, _)
next_unused_from(name, taken, from0) ==
    IF SubscriptedNonterminal(name, from0) \in taken
    THEN next_unused_from(name, taken, from0 + 1)
    ELSE SubscriptedNonterminal(name, from0)

\* SubscriptedNonterminal.next_unused
next_unused(name, taken) == next_unused_from(name, taken, 1)

(***************************************************************************)
(* cfg/cnf.py                                                              *)
(***************************************************************************)
is_cnf_rule(r, st) ==
    LET rs == r.right_side IN
    \/ Len(rs) = 1 /\ IsTerminal(rs[1])
    \/ Len(rs) = 2 /\ \A k \in 1..2 : IsNonterminal(rs[k]) /\ rs[k] # st
    \/ r.left_side = st /\ rs = <<>>

is_cnf(g) == \A k \in 1..Len(g) : is_cnf_rule(g[k], start(g))

\* _first_rule_that: the first position satisfying pred, 0 for None
FirstIn(q, good) ==
    IF \E k \in 1..Len(q) : q[k] \in good
    THEN CHOOSE k \in 1..Len(q) : q[k] \in good /\ \A m \in 1..(k - 1) : q[m] \notin good
    ELSE 0

first_empty_rule(ps, st) ==
    FirstIn(ps, {r \in Range(ps) : r.right_side = <<>> /\ ~(r.left_side = st)})

first_unit_rule(ps) ==
    FirstIn(ps, {r \in Range(ps) : Len(r.right_side) = 1 /\ IsNonterminal(r.right_side[1])})

PrependAll(x, seqs) == [k \in 1..Len(seqs) |-> <<x>> \o seqs[k]]

RECURSIVE combinations(_, _)
\* itertools.combinations(L, r), in its (lexicographic) order
combinations(L, r) ==
    IF r = 0 THEN << <<>> >>
    ELSE IF L = <<>> THEN <<>>
    ELSE PrependAll(Head(L), combinations(Tail(L), r - 1)) \o combinations(Tail(L), r)

RECURSIVE powerset_from(_, _)
powerset_from(L, r) ==
    IF r > Len(L) THEN <<>> ELSE combinations(L, r) \o powerset_from(L, r + 1)

\* moreitertools.powerset
powerset(L) == powerset_from(L, 0)

RECURSIVE ConcatAll(_)
ConcatAll(seqs) == IF seqs = <<>> THEN <<>> ELSE Head(seqs) \o ConcatAll(Tail(seqs))

RECURSIVE Dedup(_, _)
\* keep the first occurrence of each element (if x not in result: append)
Dedup(q, seen) ==
    IF q = <<>> THEN <<>>
    ELSE IF Head(q) \in seen THEN Dedup(Tail(q), seen)
    ELSE <<Head(q)>> \o Dedup(Tail(q), seen \cup {Head(q)})

PositionsOf(sentence, x) ==
    LET RECURSIVE pos(_)
        pos(k) == IF k > Len(sentence) THEN <<>>
                  ELSE IF sentence[k] = x THEN <<k>> \o pos(k + 1) ELSE pos(k + 1)
    IN pos(1)

\* one substitution: the positions in subset replaced by the right side
Substitute(sentence, subset, rhs) ==
    ConcatAll([k \in 1..Len(sentence) |-> IF k \in subset THEN rhs ELSE <<sentence[k]>>])

substitutions(sentence, production) ==
    LET indices == PositionsOf(sentence, production.left_side)
        subsets == powerset(indices)
    IN Dedup([k \in 1..Len(subsets) |->
                Substitute(sentence, Range(subsets[k]), production.right_side)], {})

RECURSIVE chain(_, _)
chain(p, used_variables) ==
    LET rs == p.right_side IN
    IF Len(rs) <= 2 THEN <<p>>
    ELSE LET first == rs[1]
             second_name == ConcatAll([k \in 1..(Len(rs) - 1) |-> Str(rs[k + 1])])
             second == next_unused(second_name, used_variables)
             first_new_rule == ProductionRule(p.left_side, <<first, second>>)
             second_new_rule == ProductionRule(second, Tail(rs))
         IN <<first_new_rule>> \o chain(second_new_rule, used_variables \cup {second})

get_variables(ps) ==
    {ps[k].left_side : k \in 1..Len(ps)} \cup
    {x \in UNION {Range(ps[k].right_side) : k \in 1..Len(ps)} : IsNonterminal(x)}

\* replace_terminals: the fixed rule and the list of the terminals replaced
replace_terminals(p, proxies) ==
    LET rs == p.right_side IN
    IF Len(rs) < 2 \/ p \in {proxies[t] : t \in DOMAIN proxies}
    THEN [rule |-> p, replaced |-> <<>>]
    ELSE [rule |-> ProductionRule(p.left_side,
                      [k \in 1..Len(rs) |->
                          IF IsTerminal(rs[k]) THEN proxies[rs[k]].left_side ELSE rs[k]]),
          replaced |-> FilterSeq(rs, {x \in Range(rs) : IsTerminal(x)})]

S0 == SubscriptedNonterminal(start(G).name, 0)

\* productions = list(G.productions); productions[:0] = [S0 -> S]
CNFAugment ==
    /\ alg = "cnf" /\ pc = "entry"
    /\ productions' = <<ProductionRule(S0, <<start(G)>>)>> \o G
    /\ removed_rules' = <<>>
    /\ pc' = "remove_empty"
    /\ UNCHANGED <<alg, G, w, result, parserVars, new_rules, proxy_rules, added, tree, chartVars>>
    /\ UNCHANGED written

\* one iteration of the loop "Remove e rules"
CNFRemoveEmpty ==
    /\ alg = "cnf" /\ pc = "remove_empty"
    /\ LET idx == first_empty_rule(productions, S0) IN
       /\ idx # 0
       /\ LET pe == productions[idx]
              removed == Append(removed_rules, pe)
              rest == Take(productions, idx - 1) \o Drop(productions, idx)
              nr == ConcatAll([k \in 1..(Len(rest) - 1) |->
                       LET subs == substitutions(rest[k + 1].right_side, pe) IN
                       [m \in 1..Len(subs) |-> ProductionRule(rest[k + 1].left_side, subs[m])]])
          IN /\ removed_rules' = removed
             /\ new_rules' = nr
             /\ productions' = <<rest[1]>> \o FilterSeq(nr, Range(nr) \ Range(removed))
    /\ UNCHANGED <<alg, G, w, pc, result, parserVars, proxy_rules, added, tree, chartVars>>
    /\ UNCHANGED written

\* the loop ends: removed_rules = []
CNFEmptyDone ==
    /\ alg = "cnf" /\ pc = "remove_empty"
    /\ first_empty_rule(productions, S0) = 0
    /\ removed_rules' = <<>>
    /\ pc' = "remove_unit"
    /\ UNCHANGED <<alg, G, w, result, parserVars, productions, new_rules, proxy_rules, added, tree, chartVars>>
    /\ UNCHANGED written

\* one iteration of the loop "Remove unit rules"
CNFRemoveUnit ==
    /\ alg = "cnf" /\ pc = "remove_unit"
    /\ LET idx == first_unit_rule(productions) IN
       /\ idx # 0
       /\ LET pu == productions[idx]
              removed == Append(removed_rules, pu)
              from == FilterSeq(productions,
                         {r \in Range(productions) : r.left_side = pu.right_side[1]})
              nr == [k \in 1..Len(from) |-> ProductionRule(pu.left_side, from[k].right_side)]
          IN /\ removed_rules' = removed
             /\ new_rules' = nr
             /\ productions' = Take(productions, idx - 1)
                                 \o FilterSeq(nr, (Range(nr) \ Range(productions)) \ Range(removed))
                                 \o Drop(productions, idx)
    /\ UNCHANGED <<alg, G, w, pc, result, parserVars, proxy_rules, added, tree, chartVars>>
    /\ UNCHANGED written

\* the loop ends: i = 0
CNFUnitDone ==
    /\ alg = "cnf" /\ pc = "remove_unit"
    /\ first_unit_rule(productions) = 0
    /\ i' = 0
    /\ pc' = "chain"
    /\ UNCHANGED <<alg, G, w, result, s, alpha, beta, cnfVars, tree, chartVars>>
    /\ UNCHANGED written

\* one iteration of the loop "Chain right sides of rules" (i is 0-based)
CNFChain ==
    /\ alg = "cnf" /\ pc = "chain"
    /\ i < Len(productions)
    /\ LET nr == chain(productions[i + 1], get_variables(productions)) IN
       /\ new_rules' = nr
       /\ productions' = Take(productions, i) \o nr \o Drop(productions, i + 1)
       /\ i' = i + Len(nr)
    /\ UNCHANGED <<alg, G, w, pc, result, s, alpha, beta, removed_rules, proxy_rules, added, tree, chartVars>>
    /\ UNCHANGED written

\* the loop ends: the proxy rules of the terminals of G, added, i = 0
CNFChainDone ==
    /\ alg = "cnf" /\ pc = "chain"
    /\ ~(i < Len(productions))
    /\ LET variables == get_variables(productions) IN
       proxy_rules' = [t \in terminals(G) |->
                          ProductionRule(next_unused(upper(t.name), variables), <<t>>)]
    /\ added' = [t \in terminals(G) |-> FALSE]
    /\ i' = 0
    /\ pc' = "proxy"
    /\ UNCHANGED <<alg, G, w, result, s, alpha, beta, productions, removed_rules, new_rules, tree, chartVars>>
    /\ UNCHANGED written

RECURSIVE AppendProxies(_, _, _, _)
\* for t in replaced: if not added[t]: productions.append(proxy_rules[t]); added[t] = True
AppendProxies(replaced, ps, add, proxies) ==
    IF replaced = <<>> THEN [productions |-> ps, added |-> add]
    ELSE LET t == Head(replaced) IN
         IF ~add[t]
         THEN AppendProxies(Tail(replaced), Append(ps, proxies[t]),
                            [add EXCEPT ![t] = TRUE], proxies)
         ELSE AppendProxies(Tail(replaced), ps, add, proxies)

\* the step of the index at the end of an iteration of the last loop
ProxyIncrement == Len(new_rules)

\* one iteration of the loop "Replace terminal symbols with proxy variables"
CNFProxy ==
    /\ alg = "cnf" /\ pc = "proxy"
    /\ i < Len(productions)
    /\ LET rt == replace_terminals(productions[i + 1], proxy_rules)
           r == AppendProxies(rt.replaced, [productions EXCEPT ![i + 1] = rt.rule],
                              added, proxy_rules)
       IN /\ productions' = r.productions
          /\ added' = r.added
    /\ i' = i + ProxyIncrement
    /\ UNCHANGED <<alg, G, w, pc, result, s, alpha, beta, removed_rules, new_rules, proxy_rules, tree, chartVars>>
    /\ UNCHANGED written

\* return ContextFreeGrammar(productions), which raises on an empty list
CNFReturn ==
    /\ alg = "cnf" /\ pc = "proxy"
    /\ ~(i < Len(productions))
    /\ result' = IF productions = <<>> THEN Raised("ValueError")
                 ELSE [kind |-> "grammar", parse |-> <<>>]
    /\ pc' = "done"
    /\ UNCHANGED <<alg, G, w, parserVars, cnfVars, tree, chartVars>>
    /\ UNCHANGED written

CnfMaxRules == 2
CnfMaxRhs == 3

InitCNF ==
    /\ alg = "cnf"
    /\ \E m \in 1..CnfMaxRules : G \in Grammars(m, CnfMaxRhs)
    /\ start(G) = SymS
    /\ w = <<>>
    /\ pc = "entry"
    /\ result = NoResult
    /\ ParserIdle /\ CnfIdle /\ tree = NoTree /\ ChartIdle
    /\ written = FALSE

NextCNF ==
    CNFAugment \/ CNFRemoveEmpty \/ CNFEmptyDone \/ CNFRemoveUnit \/ CNFUnitDone
        \/ CNFChain \/ CNFChainDone \/ CNFProxy \/ CNFReturn

SpecCNF == InitCNF /\ [][NextCNF]_vars

\* the grammar ChomskyNormalForm returned
CnfReturned == alg = "cnf" /\ Done /\ result.kind = "grammar"

\* C4: for every grammar G, ChomskyNormalForm(G) returns a grammar in Chomsky
\* normal form: is_cnf of the result is true.
C4_ResultIsCnf ==
    (alg = "cnf" /\ Done) => (result.kind = "grammar" /\ is_cnf(productions))

NonemptyInputs == Inputs(MaxLen) \ {<<>>}

\* C5: for every grammar G and every non-empty terminal string u, u is
\* derivable from the start symbol of ChomskyNormalForm(G) if and only if it
\* is derivable from the start symbol of G.
C5_SameLanguage ==
    CnfReturned =>
        \A u \in NonemptyInputs : InLanguage(productions, u) <=> InLanguage(G, u)

\* C6: ChomskyNormalForm(G) has a production with empty right side and the
\* new start symbol S0 on the left if and only if the empty string is in
\* L(G), and has no e-production for any other nonterminal.
C6_EmptyRuleOnlyForStart ==
    CnfReturned =>
        /\ Contains(productions, ProductionRule(S0, <<>>)) <=> InLanguage(G, <<>>)
        /\ \A k \in 1..Len(productions) :
              productions[k].right_side = <<>> => productions[k].left_side = S0

(***************************************************************************)
(* aho_ullman.cocke_younger_kasami_algorithm.  T[i][j] is the cell t_ij of *)
(* the parse table: row i has the cells j = 1 .. n - i + 1.                *)
(***************************************************************************)
CykMaxRules == 3
CykMaxLen == 3

SymC == Nonterminal(<<"C">>)

CykNTs == {SymS, SymA, SymC}

\* right sides: one terminal, two nonterminals, and the shapes CYK rejects
CykRhs == [1..1 -> Ts] \cup [1..2 -> CykNTs] \cup {<<>>, <<SymA>>}

CykGrammars(m) == [1..m -> {ProductionRule(l, r) : l \in CykNTs, r \in CykRhs}]

ParseTable(n) == [ix \in 1..n |-> [jx \in 1..(n - ix + 1) |-> {}]]

\* _cyk_check_args raises ValueError
cyk_check_args_fails(g, u, chk) ==
    \/ ~check_args_ok(g, u)
    \/ has_empty_rules(g)
    \/ chk /\ ~is_cnf(g)

\* step (1) for one i: t[i][1] |= {A : A -> a_i in P}
cyk_step1(g, u, tt, ix) ==
    [tt EXCEPT ![ix][1] = @ \cup {g[m].left_side : m \in {k \in 1..Len(g) :
                                      g[k].right_side[1] = u[ix]}}]

\* the nonterminals the split k adds to t[i][j]
cyk_split(g, tt, ix, jx, k) ==
    {g[m].left_side : m \in {q \in 1..Len(g) :
        /\ Len(g[q].right_side) = 2
        /\ g[q].right_side[1] \in tt[ix][k]
        /\ g[q].right_side[2] \in tt[ix + k][jx - k]}}

\* line(j) with the splits k = 1 .. j - 2 only
line_without_last_split(g, n, tt, jx) ==
    [ix \in 1..n |-> [c \in 1..(n - ix + 1) |->
        IF c = jx /\ ix <= n - jx + 1
        THEN tt[ix][c] \cup UNION {cyk_split(g, tt, ix, jx, k) : k \in 1..(jx - 2)}
        ELSE tt[ix][c]]]

\* line(j): t[i][j] for i = 1 .. n - j + 1, over the splits k with j - k >= 1
line(g, n, tt, jx) ==
    [ix \in 1..n |-> [c \in 1..(n - ix + 1) |->
        IF c = jx /\ ix <= n - jx + 1
        THEN tt[ix][c] \cup UNION {cyk_split(g, tt, ix, jx, k) : k \in {kx \in 1..jx : jx - kx >= 1}}
        ELSE tt[ix][c]]]

CykUnchanged == UNCHANGED <<alg, G, w, s, alpha, beta, cnfVars, tree, check, I, stack, pi, slrVars>>

\* parse_table_str(T) takes the max of the cell widths of the rows, and max
\* raises ValueError on the empty table; the argument of write is evaluated
\* whether or not there is an output stream
parse_table_str_raises(n) == n = 0

\* _cyk_check_args, then T = ParseTable(n) and the first write
CYKEntry ==
    /\ alg = "cyk" /\ pc = "entry"
    /\ IF cyk_check_args_fails(G, w, check) \/ parse_table_str_raises(Len(w))
       THEN /\ pc' = "done" /\ result' = Raised("ValueError")
            /\ UNCHANGED <<T, i, j, written>>
       ELSE /\ pc' = "step1" /\ T' = ParseTable(Len(w)) /\ i' = 1
            /\ written' = TRUE
            /\ UNCHANGED <<result, j>>
    /\ CykUnchanged

\* one iteration of the loop of step (1)
CYKStep1 ==
    /\ alg = "cyk" /\ pc = "step1"
    /\ i <= Len(w)
    /\ T' = cyk_step1(G, w, T, i)
    /\ i' = i + 1
    /\ UNCHANGED <<pc, result, j>>
    /\ CykUnchanged
    /\ UNCHANGED written

\* the loop of step (1) ends; the loop over the lines starts
CYKStep1Done ==
    /\ alg = "cyk" /\ pc = "step1"
    /\ i > Len(w)
    /\ pc' = "line" /\ j' = 1
    /\ UNCHANGED <<T, i, result>>
    /\ CykUnchanged
    /\ UNCHANGED written

\* one iteration of the last loop: line(_j)
CYKLine ==
    /\ alg = "cyk" /\ pc = "line"
    /\ j <= Len(w)
    /\ T' = line(G, Len(w), T, j)
    /\ j' = j + 1
    /\ UNCHANGED <<pc, i, result>>
    /\ CykUnchanged
    /\ UNCHANGED written

\* return t
CYKReturn ==
    /\ alg = "cyk" /\ pc = "line"
    /\ j > Len(w)
    /\ pc' = "done" /\ result' = [kind |-> "table", parse |-> <<>>]
    /\ UNCHANGED <<T, i, j>>
    /\ CykUnchanged
    /\ UNCHANGED written

InitCYK ==
    /\ alg = "cyk"
    /\ \E m \in 1..CykMaxRules : G \in CykGrammars(m)
    /\ start(G) = SymS
    /\ w \in Inputs(CykMaxLen)
    /\ check \in BOOLEAN
    /\ pc = "entry"
    /\ result = NoResult
    /\ ParserIdle /\ CnfIdle /\ tree = NoTree
    /\ T = <<>> /\ I = <<>> /\ j = 0 /\ stack = <<>> /\ pi = <<>>
    /\ SlrIdle
    /\ written = FALSE

NextCYK == CYKEntry \/ CYKStep1 \/ CYKStep1Done \/ CYKLine \/ CYKReturn

SpecCYK == InitCYK /\ [][NextCYK]_vars

\* C7: for a Chomsky normal form grammar without e-productions and an input
\* of length n >= 1, the returned table has A in t[i][j] exactly when A
\* derives a_i ... a_(i+j-1) in one or more steps, for all 1 <= i <= n and
\* 1 <= j <= n - i + 1; so the start symbol is in t[1][n] exactly when w is
\* in L(G).
C7_TableIsDerivability ==
    (alg = "cyk" /\ Done /\ result.kind = "table" /\ is_cnf(G) /\ ~has_empty_rules(G)
        /\ Len(w) >= 1) =>
        LET D == DerivesSpan(G, w) IN
        /\ \A ix \in 1..Len(w) : \A jx \in 1..(Len(w) - ix + 1) :
              T[ix][jx] = {A \in nonterminals(G) : <<A, ix, ix + jx>> \in D}
        /\ (start(G) \in T[1][Len(w)]) <=> InLanguage(G, w)

C7_Witness ==
    /\ alg = "cyk" /\ Done /\ result.kind = "table" /\ is_cnf(G)
    /\ Len(w) = CykMaxLen /\ Len(G) = CykMaxRules
    /\ start(G) \in T[1][Len(w)]
    /\ T[2][Len(w) - 1] # {}

(***************************************************************************)
(* aho_ullman.earley_parse.  I is the list of parse lists I[0] .. I[n];    *)
(* an item [A -> X1 .. Xk . Xk+1 .. Xm, i] is Item(production, k, i).      *)
(***************************************************************************)
Item(p, k, ix) == [production |-> p, k |-> k, i |-> ix]

None == [cls |-> "None", name |-> <<>>, sub |-> 0]

item_m(item) == Len(item.production.right_side)

after_dot(item) ==
    IF item.k < item_m(item) THEN item.production.right_side[item.k + 1] ELSE None

\* the items [B -> . gamma, jx] for the productions of B, in the order of P
items_of(g, B, jx) ==
    LET RECURSIVE it(_)
        it(k) == IF k > Len(g) THEN <<>>
                 ELSE IF g[k].left_side = B THEN <<Item(g[k], 0, jx)>> \o it(k + 1)
                 ELSE it(k + 1)
    IN it(1)

\* steps (3) and (6): the items predicted from the list L, in the order found
predicted(g, L, jx) ==
    ConcatAll([q \in 1..Len(L) |->
        IF IsNonterminal(after_dot(L[q])) THEN items_of(g, after_dot(L[q]), jx) ELSE <<>>])

\* step (5): the items of I[item.i] moved over the left side of a completed item
completed(II, jx) ==
    LET L == II[jx]
        over(item) ==
            LET from == II[item.i] IN
            ConcatAll([q \in 1..Len(from) |->
                IF after_dot(from[q]) = item.production.left_side
                THEN <<Item(from[q].production, from[q].k + 1, from[q].i)>> ELSE <<>>])
    IN ConcatAll([q \in 1..Len(L) |->
           IF item_m(L[q]) = L[q].k THEN over(L[q]) ELSE <<>>])

\* step (2) reads item.left_side, which an Item does not have, as soon as
\* I[0] holds an item with the dot at the end
step2_raises(L) == \E q \in 1..Len(L) : item_m(L[q]) = L[q].k /\ L[q].i = 0

\* step (4): the items of I[j-1] with a_j after the dot, moved over it
scanned(L, a) ==
    Dedup(ConcatAll([q \in 1..Len(L) |->
              IF after_dot(L[q]) = a THEN <<Item(L[q].production, L[q].k + 1, L[q].i)>>
              ELSE <<>>]), {})

\* one iteration of "while added" on I[jx] (jx >= 1: steps (5) and (6);
\* jx = 0: step (3), step (2) having added nothing)
closure_pass(g, II, jx) ==
    LET L0 == II[jx]
        n5 == IF jx = 0 THEN <<>> ELSE Dedup(completed(II, jx), Range(L0))
        L1 == L0 \o n5
        n6 == Dedup(predicted(g, L1, jx), Range(L1))
    IN [list |-> L1 \o n6, added |-> n5 # <<>> \/ n6 # <<>>]

EarleyUnchanged == UNCHANGED <<G, w, parserVars, cnfVars, tree, check, T, slrVars>>

\* _check_args, the empty lists, and step (1)
EarleyEntry ==
    /\ alg = "earley" /\ pc = "entry"
    /\ IF ~check_args_ok(G, w)
       THEN /\ pc' = "done" /\ result' = Raised("ValueError")
            /\ UNCHANGED <<I, j>>
       ELSE /\ pc' = "close" /\ j' = 0
            /\ I' = [jx \in 0..Len(w) |->
                        IF jx = 0 THEN items_of(G, start(G), 0) ELSE <<>>]
            /\ UNCHANGED result
    /\ UNCHANGED <<alg, stack, pi>>
    /\ EarleyUnchanged
    /\ UNCHANGED written

\* one iteration of the loop "while added" on I[j]
EarleyClose ==
    /\ alg = "earley" /\ pc = "close"
    /\ IF j = 0 /\ step2_raises(I[0])
       THEN /\ pc' = "done" /\ result' = Raised("AttributeError")
            /\ UNCHANGED I
       ELSE LET c == closure_pass(G, I, j) IN
            /\ I' = [I EXCEPT ![j] = c.list]
            /\ pc' = IF c.added THEN "close" ELSE "next"
            /\ UNCHANGED result
    /\ written' = TRUE
    /\ UNCHANGED <<alg, j, stack, pi>>
    /\ EarleyUnchanged

\* the next iteration of "for j": step (4)
EarleyScan ==
    /\ alg = "earley" /\ pc = "next"
    /\ j < Len(w)
    /\ j' = j + 1
    /\ I' = [I EXCEPT ![j + 1] = scanned(I[j], w[j + 1])]
    /\ pc' = "close"
    /\ UNCHANGED <<alg, result, stack, pi>>
    /\ EarleyUnchanged
    /\ UNCHANGED written

\* return I
EarleyReturn ==
    /\ alg = "earley" /\ pc = "next"
    /\ j = Len(w)
    /\ pc' = "done" /\ result' = [kind |-> "lists", parse |-> <<>>]
    /\ UNCHANGED <<alg, I, j, stack, pi>>
    /\ EarleyUnchanged
    /\ UNCHANGED written

(***************************************************************************)
(* aho_ullman.right_parse_from_parse_lists, run on the lists earley_parse  *)
(* returned.  stack holds the calls of the routine R in progress, the      *)
(* innermost last, each with its item and its locals k and l; the frame of *)
(* a caller already holds the values k - 1 and r it takes after the call.  *)
(***************************************************************************)
\* I[l] of a Python list: a negative index counts from the end
parse_list(II, l) == IF l >= 0 THEN II[l] ELSE II[Len(w) + 1 + l]

\* the first item [S -> alpha ., 0] of the list, 0 if there is none
first_start_item(g, L) ==
    FirstIn(L, {x \in Range(L) : x.production.left_side = start(g)
                                   /\ x.k = item_m(x) /\ x.i = 0})

\* step (3b): the first item [Xk -> gamma ., r] of I[l] such that
\* [A -> X1 .. Xk-1 . Xk .. Xm, i] is in I[r]; 0 if there is none
first_reduced_item(II, item, k, l) ==
    LET L == parse_list(II, l) IN
    FirstIn(L, {x \in Range(L) :
                  /\ x.production.left_side = item.production.right_side[k]
                  /\ item_m(x) = x.k
                  /\ Contains(parse_list(II, x.i), Item(item.production, k - 1, item.i))})

\* the call R(item, jx): steps (1) and (2), and the first read of X[k],
\* which raises IndexError in Seq for k = m = 0
call_R(g, item, jx, stk, ppi) ==
    [pi |-> <<IndexOf(g, item.production)>> \o ppi,
     stack |-> Append(stk, [item |-> item, k |-> item_m(item), l |-> jx]),
     raised |-> item_m(item) = 0]

RPUnchanged == UNCHANGED <<G, w, parserVars, cnfVars, tree, check, T, I, j, slrVars>>

\* _check_args, the cycle check and the search of I[n] for [S -> alpha ., 0]
RPEntry ==
    /\ \/ alg = "earley" /\ pc = "done" /\ result.kind = "lists"
       \/ alg = "right_parse" /\ pc = "entry"
    /\ alg' = "right_parse"
    /\ IF ~check_args_ok(G, w) \/ cyclic(G)
       THEN /\ pc' = "done" /\ result' = Raised("ValueError")
            /\ written' = FALSE
            /\ UNCHANGED <<stack, pi>>
       ELSE LET q == first_start_item(G, I[Len(w)]) IN
            IF q = 0
            THEN /\ pc' = "done" /\ result' = Raised("ParseError")
                 /\ written' = FALSE
                 /\ UNCHANGED <<stack, pi>>
            ELSE LET c == call_R(G, I[Len(w)][q], Len(w), <<>>, <<>>) IN
                 /\ pi' = c.pi /\ stack' = c.stack
                 /\ pc' = IF c.raised THEN "done" ELSE "run"
                 /\ result' = IF c.raised THEN Raised("IndexError") ELSE NoResult
                 /\ written' = TRUE
    /\ RPUnchanged

\* one iteration of "while True" in the innermost call of R, up to the
\* call of R it makes; with no item found in step (3b) nothing changes and
\* the loop goes round again
RPStep ==
    /\ alg = "right_parse" /\ pc = "run"
    /\ stack # <<>> /\ Last(stack).k >= 1
    /\ LET f == Last(stack)
           X == f.item.production.right_side[f.k] IN
       IF X \in terminals(G)
       THEN /\ stack' = Append(Front(stack), [f EXCEPT !.k = f.k - 1, !.l = f.l - 1])
            /\ UNCHANGED <<pc, result, pi>>
       ELSE IF X \in nonterminals(G) /\ first_reduced_item(I, f.item, f.k, f.l) # 0
       THEN LET other == parse_list(I, f.l)[first_reduced_item(I, f.item, f.k, f.l)]
                c == call_R(G, other, f.l,
                            Append(Front(stack), [f EXCEPT !.k = f.k - 1, !.l = other.i]),
                            pi) IN
            /\ pi' = c.pi /\ stack' = c.stack
            /\ pc' = IF c.raised THEN "done" ELSE "run"
            /\ result' = IF c.raised THEN Raised("IndexError") ELSE result
       ELSE UNCHANGED <<pc, result, stack, pi>>
    /\ UNCHANGED alg
    /\ RPUnchanged
    /\ UNCHANGED written

\* k = 0: the innermost call of R returns; the outermost returns pi
RPReturn ==
    /\ alg = "right_parse" /\ pc = "run"
    /\ stack # <<>> /\ Last(stack).k = 0
    /\ stack' = Front(stack)
    /\ IF Len(stack) = 1
       THEN pc' = "done" /\ result' = Returned(pi)
       ELSE UNCHANGED <<pc, result>>
    /\ UNCHANGED <<alg, pi>>
    /\ RPUnchanged
    /\ UNCHANGED written

InitEarley ==
    /\ alg = "earley"
    /\ \E m \in 1..MaxRules : G \in Grammars(m, MaxRhs)
    /\ start(G) = SymS
    /\ w \in Inputs(MaxLen)
    /\ pc = "entry"
    /\ result = NoResult
    /\ ParserIdle /\ CnfIdle /\ tree = NoTree /\ ChartIdle
    /\ written = FALSE

NextEarley ==
    EarleyEntry \/ EarleyClose \/ EarleyScan \/ EarleyReturn
        \/ RPEntry \/ RPStep \/ RPReturn \/ RightParseTree

SpecEarley == InitEarley /\ [][NextEarley]_vars

HasStartItem == first_start_item(G, I[Len(w)]) # 0

\* C8: for every grammar, e-productions included, and every input made of
\* terminals of the grammar, earley_parse returns parse lists I[0] .. I[n],
\* and I[n] holds an item [S -> alpha ., 0] exactly when w is in L(G).
C8_EarleyRecognizes ==
    (alg = "earley" /\ Done /\ check_args_ok(G, w)) =>
        /\ result.kind = "lists"
        /\ HasStartItem <=> InLanguage(G, w)

\* the loop of R goes round without changing anything
RPStuck ==
    /\ alg = "right_parse" /\ pc = "run" /\ stack # <<>> /\ Last(stack).k >= 1
    /\ LET f == Last(stack)
           X == f.item.production.right_side[f.k] IN
       /\ X \notin terminals(G)
       /\ ~(X \in nonterminals(G) /\ first_reduced_item(I, f.item, f.k, f.l) # 0)

\* C9: for an acyclic grammar and the parse lists of earley_parse,
\* right_parse_from_parse_lists returns a right parse of w (the rule numbers
\* of a rightmost derivation of w, last rule first) when I[n] holds an item
\* [S -> alpha ., 0], raises ParseError when it does not, and never loops.
C9_RightParseFromLists ==
    (alg = "right_parse" /\ ~cyclic(G)) =>
        /\ Done =>
              IF HasStartItem
              THEN result.kind = "parse"
                   /\ IsRightmostDerivation(G, Reverse(result.parse), w)
              ELSE result.kind = "ParseError"
        /\ ~RPStuck

\* C10: the leaves of the tree built from a parse a parser returned for w
\* (LeftParse for a left parse, RightParse for a right parse or a reversed
\* bottom-up result) are, left to right, the symbols of w, for every
\* grammar, e-productions included.
C10_LeavesAreInput ==
    pc = "tree" => (result.kind = "parse" /\ iter_leaves(tree) = w)

(***************************************************************************)
(* cfg.py ContextFreeGrammar objects: the production list, the symbols     *)
(* given beyond those of the productions, and the start symbol.            *)
(***************************************************************************)
PrimedNonterminal(n, k) == [cls |-> "PrimedNonterminal", name |-> n, sub |-> k]

Epsilon == [cls |-> "Epsilon", name |-> <<>>, sub |-> 0]

CFG(ps, en, et, st) ==
    [productions |-> ps, extra_nonterminals |-> en, extra_terminals |-> et, start |-> st]

\* ContextFreeGrammar._get_symbols_of_type(Nonterminal)
get_nonterminal_symbols(ps) ==
    {x \in UNION {Range(ps[k].right_side) : k \in 1..Len(ps)} : IsNonterminal(x)}

\* ContextFreeGrammar._get_symbols_of_type(Terminal)
get_terminal_symbols(ps) ==
    {x \in UNION {Range(ps[k].right_side) : k \in 1..Len(ps)} : IsTerminal(x)}

\* ContextFreeGrammar.nonterminals
CFG_nonterminals(g) ==
    get_nonterminal_symbols(g.productions)
        \cup {g.productions[k].left_side : k \in 1..Len(g.productions)}
        \cup g.extra_nonterminals

\* ContextFreeGrammar.terminals
CFG_terminals(g) == get_terminal_symbols(g.productions) \cup g.extra_terminals

\* ContextFreeGrammar.productions_with_left_side
productions_with_left_side(g, A) ==
    LET ps == g.productions IN FilterSeq(ps, {p \in Range(ps) : p.left_side = A})

\* _init_productions taking the start symbol from the last production
init_productions_start_last(ps) == CFG(ps, {}, {}, ps[Len(ps)].left_side)

\* ContextFreeGrammar._init_productions
init_productions(ps) == CFG(ps, {}, {}, ps[1].left_side)

\* ContextFreeGrammar._init_tuple
init_tuple(Nu, Sigma, ps, st) ==
    CFG(ps, Nu \ get_nonterminal_symbols(ps), Sigma \ get_terminal_symbols(ps), st)

(***************************************************************************)
(* slr.py: augmented grammars                                              *)
(***************************************************************************)
is_augmented(g) ==
    /\ Cardinality({k \in 1..Len(g.productions) : g.productions[k].left_side = g.start}) <= 1
    /\ ~\E k \in 1..Len(g.productions) : Contains(g.productions[k].right_side, g.start)

\* cfg._next_unused(original, taken, start, PrimedNonterminal)
RECURSIVE primed_next_unused_from(_, _, _)
primed_next_unused_from(name, taken, from0) ==
    IF PrimedNonterminal(name, from0) \in taken
    THEN primed_next_unused_from(name, taken, from0 + 1)
    ELSE PrimedNonterminal(name, from0)

\* PrimedNonterminal.next_unused
primed_next_unused(name, taken) == primed_next_unused_from(name, taken, 1)

augmented(g) ==
    IF is_augmented(g) THEN g
    ELSE LET Sp == primed_next_unused(g.start.name, CFG_nonterminals(g))
             Nu == {Sp} \cup CFG_nonterminals(g)
             ps == <<ProductionRule(Sp, <<g.start>>)>> \o g.productions
         IN init_tuple(Nu, CFG_terminals(g), ps, Sp)

(***************************************************************************)
(* slr.FirstSetTable and slr.FollowSetTable                                *)
(***************************************************************************)
\* the table of FirstSetTable._compute before the first pass
first_table_init(g) == [A \in CFG_nonterminals(g) |-> [terminals |-> {}, nullable |-> FALSE]]

\* the inner loop of FirstSetTable._compute over the right side rs of a rule
\* of A, from position k: the table and the rule kept for the next pass
RECURSIVE first_walk(_, _, _, _, _)
first_walk(g, tbl, A, rs, k) ==
    IF k > Len(rs)
    THEN [table |-> [tbl EXCEPT ![A].nullable = TRUE], next |-> <<>>]
    ELSE LET Xi == rs[k] IN
         IF Xi \in CFG_nonterminals(g)
         THEN LET t1 == [tbl EXCEPT ![A].terminals = @ \cup tbl[Xi].terminals] IN
              IF ~t1[Xi].nullable
              THEN [table |-> t1, next |-> <<ProductionRule(A, Drop(rs, k - 1))>>]
              ELSE first_walk(g, t1, A, rs, k + 1)
         ELSE [table |-> [tbl EXCEPT ![A].terminals = @ \cup {Xi}], next |-> <<>>]

\* one pass of the while loop of FirstSetTable._compute over the rules rs
RECURSIVE first_pass(_, _, _)
first_pass(g, tbl, rs) ==
    IF rs = <<>> THEN [table |-> tbl, next |-> <<>>]
    ELSE LET r1 == first_walk(g, tbl, Head(rs).left_side, Head(rs).right_side, 1)
             r2 == first_pass(g, r1.table, Tail(rs))
         IN [table |-> r2.table, next |-> r1.next \o r2.next]

\* FirstSetTable.string_first
RECURSIVE string_first(_, _)
string_first(tbl, sq) ==
    IF sq = <<>> THEN [terminals |-> {}, empty |-> TRUE]
    ELSE LET X == Head(sq) IN
         IF X \in DOMAIN tbl
         THEN IF ~tbl[X].nullable
              THEN [terminals |-> tbl[X].terminals, empty |-> FALSE]
              ELSE LET r == string_first(tbl, Tail(sq))
                   IN [terminals |-> tbl[X].terminals \cup r.terminals, empty |-> r.empty]
         ELSE [terminals |-> {X}, empty |-> FALSE]

\* the table of FollowSetTable._compute before the first pass
follow_table_init(g) ==
    [A \in CFG_nonterminals(g) |-> IF A = g.start THEN {Dollar} ELSE {}]

\* the inner loop of FollowSetTable._compute over the right side of p, from
\* position k
RECURSIVE follow_walk(_, _, _, _)
follow_walk(fst, tbl, p, k) ==
    IF k > Len(p.right_side) THEN tbl
    ELSE LET B == p.right_side[k] IN
         IF IsNonterminal(B)
         THEN LET sf == string_first(fst, Drop(p.right_side, k))
                  t1 == [tbl EXCEPT ![B] = @ \cup sf.terminals]
                  t2 == IF sf.empty THEN [t1 EXCEPT ![B] = @ \cup t1[p.left_side]] ELSE t1
              IN follow_walk(fst, t2, p, k + 1)
         ELSE follow_walk(fst, tbl, p, k + 1)

\* one pass of the while loop of FollowSetTable._compute over the rules ps
RECURSIVE follow_pass(_, _, _)
follow_pass(fst, tbl, ps) ==
    IF ps = <<>> THEN tbl
    ELSE follow_pass(fst, follow_walk(fst, tbl, Head(ps), 1), Tail(ps))

(***************************************************************************)
(* slr.py: LR(0) items, closures and the automaton.  States are numbered   *)
(* from 0 as in the source; state k is states[k + 1].                      *)
(***************************************************************************)
LRItem(p, d) == [production |-> p, dot_pos |-> d]

\* slr.Item.after_dot
lr_after_dot(item) ==
    IF item.dot_pos < Len(item.production.right_side)
    THEN item.production.right_side[item.dot_pos + 1]
    ELSE None

\* slr.Item.complete
complete(item) == item.dot_pos = Len(item.production.right_side)

\* slr.Item.dot_advanced
dot_advanced(item) == LRItem(item.production, item.dot_pos + 1)

\* append to q the elements of xs that are not in it yet, in order
RECURSIVE AppendNew(_, _)
AppendNew(q, xs) ==
    IF xs = <<>> THEN q
    ELSE AppendNew(IF Contains(q, Head(xs)) THEN q ELSE Append(q, Head(xs)), Tail(xs))

\* the nonterminals right after the dot of the items, as they come
RECURSIVE dot_nonterminals(_)
dot_nonterminals(items) ==
    IF items = <<>> THEN <<>>
    ELSE LET X == lr_after_dot(Head(items)) IN
         (IF IsNonterminal(X) THEN <<X>> ELSE <<>>) \o dot_nonterminals(Tail(items))

\* the first symbols of the right sides of the rules ps that are nonterminals
RECURSIVE first_nonterminals(_)
first_nonterminals(ps) ==
    IF ps = <<>> THEN <<>>
    ELSE LET rs == Head(ps).right_side IN
         (IF Len(rs) > 0 /\ IsNonterminal(rs[1]) THEN <<rs[1]>> ELSE <<>>)
            \o first_nonterminals(Tail(ps))

\* the while loop of Closure.closure_nonterminals from position k (1-based)
RECURSIVE closure_nonterminals_from(_, _, _)
closure_nonterminals_from(g, res, k) ==
    IF k > Len(res) THEN res
    ELSE closure_nonterminals_from(g,
            AppendNew(res, first_nonterminals(productions_with_left_side(g, res[k]))), k + 1)

\* Closure.closure_nonterminals
closure_nonterminals(g, kernel_items) ==
    closure_nonterminals_from(g, AppendNew(<<>>, dot_nonterminals(kernel_items)), 1)

RECURSIVE items_at_dot_0(_)
items_at_dot_0(ps) ==
    IF ps = <<>> THEN <<>> ELSE <<LRItem(Head(ps), 0)>> \o items_at_dot_0(Tail(ps))

RECURSIVE closure_items_of(_, _)
closure_items_of(g, nts) ==
    IF nts = <<>> THEN <<>>
    ELSE items_at_dot_0(productions_with_left_side(g, Head(nts)))
            \o closure_items_of(g, Tail(nts))

\* Closure.closure_items
closure_items(g, kernel_items) == closure_items_of(g, closure_nonterminals(g, kernel_items))

\* Closure.items
closure_all_items(g, kernel_items) == kernel_items \o closure_items(g, kernel_items)

\* Closure.goto_kernel_items on the item list
RECURSIVE goto_kernel_items(_, _)
goto_kernel_items(items, X) ==
    IF items = <<>> THEN <<>>
    ELSE (IF lr_after_dot(Head(items)) = X THEN <<dot_advanced(Head(items))>> ELSE <<>>)
            \o goto_kernel_items(Tail(items), X)

\* Closure.goto_symbols on the item list
RECURSIVE goto_symbols(_, _)
goto_symbols(items, seen) ==
    IF items = <<>> THEN seen
    ELSE LET X == lr_after_dot(Head(items)) IN
         goto_symbols(Tail(items), IF X # None /\ ~Contains(seen, X) THEN Append(seen, X) ELSE seen)

\* the index of the first state with the same list of kernel items, in the
\* same order
get_state_index_ordered(sts, kernel_items) ==
    IF \E k \in 1..Len(sts) : sts[k] = kernel_items
    THEN (CHOOSE k \in 1..Len(sts) :
            /\ sts[k] = kernel_items
            /\ \A m \in 1..(k - 1) : sts[m] # kernel_items) - 1
    ELSE -1

\* Automaton._get_state_index with Closure.__eq__: 0-based, -1 for None
get_state_index(sts, kernel_items) ==
    IF \E k \in 1..Len(sts) : Range(sts[k]) = Range(kernel_items)
    THEN (CHOOSE k \in 1..Len(sts) :
            /\ Range(sts[k]) = Range(kernel_items)
            /\ \A m \in 1..(k - 1) : Range(sts[m]) # Range(kernel_items)) - 1
    ELSE -1

\* the for loop of Automaton.__init__ over the symbols syms of state ix
RECURSIVE automaton_transitions(_, _, _, _, _)
automaton_transitions(items, syms, sts, trs, ix) ==
    IF syms = <<>> THEN [states |-> sts, transitions |-> trs]
    ELSE LET X == Head(syms)
             cl == goto_kernel_items(items, X)
             found == get_state_index(sts, cl)
             index == IF found = -1 THEN Len(sts) ELSE found
             sts2 == IF found = -1 THEN Append(sts, cl) ELSE sts
             \* add_transition overwrites the transition of (ix, X)
             trs2 == {t \in trs : ~(t[1] = ix /\ t[2] = X)} \cup {<<ix, X, index>>}
         IN automaton_transitions(items, Tail(syms), sts2, trs2, ix)

\* one round of the while loop of Automaton.__init__, for state ix
automaton_step(g, sts, trs, ix) ==
    LET items == closure_all_items(g, sts[ix + 1])
    IN automaton_transitions(items, goto_symbols(items, <<>>), sts, trs, ix)

(***************************************************************************)
(* slr.ParsingTable._init_grammar: the ACTION and GOTO tables.  A row is   *)
(* a dict, a function on the keys present; a cell of ACTION is a list.     *)
(***************************************************************************)
SHIFT == "shift"

REDUCE == "reduce"

ACCEPT == "accept"

EmptyRows(n) == [k \in 0..(n - 1) |-> <<>>]

\* ParsingTable._add_action
add_action(act, ix, X, a) ==
    [act EXCEPT ![ix] =
        IF X \in DOMAIN @ THEN [@ EXCEPT ![X] = Append(@, a)]
        ELSE [Y \in DOMAIN @ \cup {X} |-> IF Y = X THEN <<a>> ELSE @[Y]]]

\* self._goto[i][X] = j
set_goto(gt, ix, X, jx) ==
    [gt EXCEPT ![ix] = [Y \in DOMAIN @ \cup {X} |-> IF Y = X THEN jx ELSE @[Y]]]

\* the loop over M.transitions: the shift actions and the GOTO table
RECURSIVE add_transitions(_, _, _)
add_transitions(act, gt, trs) ==
    IF trs = <<>> THEN [action |-> act, goto |-> gt]
    ELSE LET t == Head(trs) IN
         IF IsTerminal(t[2])
         THEN add_transitions(add_action(act, t[1], t[2], <<SHIFT, t[3]>>), gt, Tail(trs))
         ELSE add_transitions(act, set_goto(gt, t[1], t[2], t[3]), Tail(trs))

\* the reduce actions of one completed item on the terminals las
RECURSIVE add_reductions(_, _, _, _)
add_reductions(act, ix, las, p) ==
    IF las = <<>> THEN act
    ELSE add_reductions(add_action(act, ix, Head(las), <<REDUCE, p>>), ix, Tail(las), p)

\* the loop over the items of state ix
RECURSIVE add_item_actions(_, _, _, _, _)
add_item_actions(act, g, flw, ix, items) ==
    IF items = <<>> THEN act
    ELSE LET item == Head(items)
             A == item.production.left_side
             act2 == IF ~complete(item) THEN act
                     ELSE IF A = g.start THEN add_action(act, ix, Dollar, <<ACCEPT>>)
                     ELSE add_reductions(act, ix, SetToSeq(flw[A]),
                                         IndexOf(g.productions, item.production) - 1)
         IN add_item_actions(act2, g, flw, ix, Tail(items))

\* the loop over M.closure_states() from state ix
RECURSIVE add_state_actions(_, _, _, _, _)
add_state_actions(act, g, flw, sts, ix) ==
    IF ix >= Len(sts) THEN act
    ELSE add_state_actions(
            add_item_actions(act, g, flw, ix, closure_all_items(g, sts[ix + 1])),
            g, flw, sts, ix + 1)

(***************************************************************************)
(* slr.ParsingTable(grammar): Automaton(grammar), the FIRST and FOLLOW     *)
(* tables of the augmented grammar, then the ACTION and GOTO tables.       *)
(***************************************************************************)
SlrUnchanged ==
    UNCHANGED <<alg, G, w, s, alpha, beta, cnfVars, tree, check, T, I, j, stack, pi,
                args, grammar>>

\* Automaton.__init__ up to the initial state; [p0] = ... raises ValueError
\* unless the start has exactly one production
SLRAugment ==
    /\ alg = "slr" /\ pc = "entry"
    /\ LET g == augmented(grammar)
           p0 == productions_with_left_side(g, g.start) IN
       IF Len(p0) # 1
       THEN /\ pc' = "done" /\ result' = Raised("ValueError")
            /\ Gp' = g
            /\ UNCHANGED <<states, transitions>>
       ELSE /\ pc' = "states" /\ UNCHANGED result
            /\ Gp' = g
            /\ states' = <<<<LRItem(p0[1], 0)>>>>
            /\ transitions' = {}
    /\ UNCHANGED <<i, first_sets, rules, follow_sets, action, goto, table>>
    /\ SlrUnchanged
    /\ UNCHANGED written

\* one round of the while loop of Automaton.__init__
SLRAutomatonStep ==
    /\ alg = "slr" /\ pc = "states" /\ i < Len(states)
    /\ LET r == automaton_step(Gp, states, transitions, i) IN
       /\ states' = r.states
       /\ transitions' = r.transitions
       /\ i' = i + 1
       /\ pc' = IF i + 1 < Len(r.states) THEN "states" ELSE "first"
    /\ UNCHANGED <<result, Gp, first_sets, rules, follow_sets, action, goto, table>>
    /\ SlrUnchanged
    /\ UNCHANGED written

\* FirstSetTable._compute up to the while loop
SLRFirstEntry ==
    /\ alg = "slr" /\ pc = "first"
    /\ first_sets' = first_table_init(Gp)
    /\ rules' = Gp.productions
    /\ pc' = "first_pass"
    /\ UNCHANGED <<result, i, Gp, states, transitions, follow_sets, action, goto, table>>
    /\ SlrUnchanged
    /\ UNCHANGED written

\* one pass of the while loop of FirstSetTable._compute
SLRFirstPass ==
    /\ alg = "slr" /\ pc = "first_pass"
    /\ LET r == first_pass(Gp, first_sets, rules) IN
       /\ first_sets' = r.table
       /\ rules' = r.next
       /\ pc' = IF r.table # first_sets THEN "first_pass" ELSE "follow"
    /\ UNCHANGED <<result, i, Gp, states, transitions, follow_sets, action, goto, table>>
    /\ SlrUnchanged
    /\ UNCHANGED written

\* FollowSetTable._compute up to the while loop
SLRFollowEntry ==
    /\ alg = "slr" /\ pc = "follow"
    /\ follow_sets' = follow_table_init(Gp)
    /\ pc' = "follow_pass"
    /\ UNCHANGED <<result, i, Gp, states, transitions, first_sets, rules, action, goto, table>>
    /\ SlrUnchanged
    /\ UNCHANGED written

\* one pass of the while loop of FollowSetTable._compute
SLRFollowPass ==
    /\ alg = "slr" /\ pc = "follow_pass"
    /\ LET t == follow_pass(first_sets, follow_sets, Gp.productions) IN
       /\ follow_sets' = t
       /\ pc' = IF t # follow_sets THEN "follow_pass" ELSE "table"
    /\ UNCHANGED <<result, i, Gp, states, transitions, first_sets, rules, action, goto, table>>
    /\ SlrUnchanged
    /\ UNCHANGED written

\* the rest of ParsingTable._init_grammar: the two tables
SLRTable ==
    /\ alg = "slr" /\ pc = "table"
    /\ LET n == Len(states)
           r == add_transitions(EmptyRows(n), EmptyRows(n), SetToSeq(transitions)) IN
       /\ action' = add_state_actions(r.action, Gp, follow_sets, states, 0)
       /\ goto' = r.goto
    /\ pc' = "done" /\ result' = [kind |-> "table", parse |-> <<>>]
    /\ UNCHANGED <<i, Gp, states, transitions, first_sets, rules, follow_sets, table>>
    /\ SlrUnchanged
    /\ UNCHANGED written

SlrMaxRules == 2

\* the grammars ContextFreeGrammar builds from a production list ps or from
\* the 4-tuple (NTs, Ts, ps, st)
ConstructedGrammars(ps) ==
    {init_productions(ps)} \cup {init_tuple(NTs, Ts, ps, st) : st \in NTs}

\* the three-rule lists X -> (empty), Y -> X Y, X -> t Y
NullableHeadGrammars ==
    {<<ProductionRule(X, <<>>), ProductionRule(Y, <<X, Y>>),
       ProductionRule(X, <<t, Y>>)>> : X \in NTs, Y \in NTs, t \in Ts}

InitSLR ==
    /\ alg = "slr"
    /\ \/ \E m \in 1..SlrMaxRules : G \in Grammars(m, MaxRhs)
       \/ G \in NullableHeadGrammars
    /\ grammar \in ConstructedGrammars(G)
    /\ w = <<>>
    /\ pc = "entry"
    /\ result = NoResult
    /\ ParserIdle /\ CnfIdle /\ tree = NoTree
    /\ check = TRUE /\ T = <<>> /\ I = <<>> /\ j = 0 /\ stack = <<>> /\ pi = <<>>
    /\ args = <<>> /\ Gp = <<>> /\ states = <<>> /\ transitions = <<>>
    /\ first_sets = <<>> /\ rules = <<>> /\ follow_sets = <<>>
    /\ action = <<>> /\ goto = <<>> /\ table = <<>>
    /\ written = FALSE

NextSLR ==
    \/ SLRAugment \/ SLRAutomatonStep \/ SLRFirstEntry \/ SLRFirstPass
    \/ SLRFollowEntry \/ SLRFollowPass \/ SLRTable


(***************************************************************************)
(* FIRST and nullability by their definitions, on the derivations of the   *)
(* grammar and not on the order of its productions.                        *)
(***************************************************************************)
RECURSIVE NullableFix(_, _)
NullableFix(g, Nl) ==
    LET N2 == Nl \cup {p.left_side : p \in {q \in Range(g.productions) :
                                              Range(q.right_side) \subseteq Nl}}
    IN IF N2 = Nl THEN Nl ELSE NullableFix(g, N2)

\* the nonterminals that derive the empty string
NullableSet(g) == NullableFix(g, {})

\* the pairs <<A, X>> where a production of A has X after a nullable prefix
BeginsDirectly(g) ==
    LET Nl == NullableSet(g) IN
    UNION {{<<p.left_side, p.right_side[k]>> :
                k \in {m \in 1..Len(p.right_side) :
                          \A n \in 1..(m - 1) : p.right_side[n] \in Nl}} :
           p \in Range(g.productions)}

RECURSIVE TransitiveFix(_)
TransitiveFix(R) ==
    LET R2 == R \cup {<<x[1][1], x[2][2]>> : x \in {y \in R \X R : y[1][2] = y[2][1]}}
    IN IF R2 = R THEN R ELSE TransitiveFix(R2)

\* the pairs <<A, X>> such that A derives a string that begins with X
Begins(g) == TransitiveFix(BeginsDirectly(g))

\* the terminals a such that A derives a string that begins with a
FirstOf(g, A) == {t[2] : t \in {u \in Begins(g) : u[1] = A /\ IsTerminal(u[2])}}

\* FirstSetTable(Gp) has returned
FirstComputed == alg = "slr" /\ pc \in {"follow", "follow_pass", "table", "done"} /\ first_sets # <<>>

\* C11: for every grammar and every nonterminal A, FirstSetTable.terminals(A)
\* is exactly the set of terminals a such that A derives a string beginning
\* with a, and FirstSetTable.nullable(A) holds exactly when A derives the
\* empty string, whatever the order of the productions.
C11_FirstSetsAreFirst ==
    FirstComputed =>
        \A A \in CFG_nonterminals(Gp) :
            /\ first_sets[A].terminals = FirstOf(Gp, A)
            /\ first_sets[A].nullable = (A \in NullableSet(Gp))

(***************************************************************************)
(* The defining rules of FIRST and FOLLOW as one full pass over all the    *)
(* productions of the grammar, on given tables.                            *)
(***************************************************************************)
SymNullable(tbl, X) == X \in DOMAIN tbl /\ tbl[X].nullable

SymFirst(tbl, X) == IF X \in DOMAIN tbl THEN tbl[X].terminals ELSE {X}

\* FIRST of the symbols of sq up to and including the first non-nullable one
SeqFirst(tbl, sq) ==
    UNION {SymFirst(tbl, sq[k]) :
             k \in {m \in 1..Len(sq) : \A n \in 1..(m - 1) : SymNullable(tbl, sq[n])}}

SeqNullable(tbl, sq) == \A k \in 1..Len(sq) : SymNullable(tbl, sq[k])

FirstFullPass(g, tbl) ==
    [A \in DOMAIN tbl |->
        LET ps == {p \in Range(g.productions) : p.left_side = A} IN
        [terminals |-> tbl[A].terminals \cup UNION {SeqFirst(tbl, p.right_side) : p \in ps},
         nullable |-> tbl[A].nullable \/ \E p \in ps : SeqNullable(tbl, p.right_side)]]

FollowFullPass(g, fst, tbl) ==
    [B \in DOMAIN tbl |->
        tbl[B] \cup
        UNION {UNION {LET rest == Drop(p.right_side, k) IN
                      SeqFirst(fst, rest)
                        \cup (IF SeqNullable(fst, rest) THEN tbl[p.left_side] ELSE {}) :
                      k \in {m \in 1..Len(p.right_side) : p.right_side[m] = B}} :
               p \in Range(g.productions)}]

\* FollowSetTable(first_sets, M) has returned
FollowComputed == alg = "slr" /\ pc \in {"table", "done"} /\ follow_sets # <<>>

\* C12: the tables FirstSetTable and FollowSetTable return are fixpoints of
\* their defining rules: one more full pass over all the productions adds no
\* element to any set and changes no nullable flag.
C12_TablesAreFixpoints ==
    /\ FirstComputed => FirstFullPass(Gp, first_sets) = first_sets
    /\ FollowComputed => FollowFullPass(Gp, first_sets, follow_sets) = follow_sets

(***************************************************************************)
(* table.ParseTableNormalForm.  A dict is a function on the keys present.  *)
(***************************************************************************)
DictSet(d, k, v) == [x \in DOMAIN d \cup {k} |-> IF x = k THEN v ELSE d[x]]

DictGet(d, k, default) == IF k \in DOMAIN d THEN d[k] ELSE default

\* ParseTableNormalForm.__init__
ParseTableNormalForm ==
    [reductions |-> <<>>, gotoshifts |-> <<>>, accepts |-> <<>>,
     terminals |-> {}, nonterminals |-> {}]

\* ParseTableNormalForm._add_symbol
nf_add_symbol(t, X) ==
    IF IsTerminal(X) /\ X # Dollar THEN [t EXCEPT !.terminals = @ \cup {X}]
    ELSE IF IsNonterminal(X) THEN [t EXCEPT !.nonterminals = @ \cup {X}]
    ELSE t

\* ParseTableNormalForm.add_reduction
nf_add_reduction(t, state, terminal, production) ==
    LET row == DictGet(t.reductions, state, <<>>)
        cell == DictGet(row, terminal, <<>>)
    IN nf_add_symbol(
          [t EXCEPT !.reductions = DictSet(@, state, DictSet(row, terminal, Append(cell, production)))],
          terminal)

\* ParseTableNormalForm.set_gotoshift
nf_set_gotoshift(t, state, symbol, gotoshift_state) ==
    nf_add_symbol(
        [t EXCEPT !.gotoshifts =
            DictSet(@, state, DictSet(DictGet(@, state, <<>>), symbol, gotoshift_state))],
        symbol)

\* ParseTableNormalForm.set_accept
nf_set_accept(t, state, terminal) ==
    nf_add_symbol(
        [t EXCEPT !.accepts = DictSet(@, state, DictGet(@, state, {}) \cup {terminal})],
        terminal)

\* equivalent.get_reductions: the cells of a state as sets
get_reductions(t, state) ==
    LET row == DictGet(t.reductions, state, <<>>) IN [a \in DOMAIN row |-> Range(row[a])]

\* equivalent.get_gotoshifts; -1 is None
get_gotoshifts(t, state, symbol) == DictGet(DictGet(t.gotoshifts, state, <<>>), symbol, -1)

\* equivalent.get_accepts
get_accepts(t, state) == DictGet(t.accepts, state, {})

\* the for loop of equivalent over the symbols syms, for the pair (sx, tx)
RECURSIVE equivalent_symbols(_, _, _, _, _, _, _)
equivalent_symbols(a, b, sx, tx, syms, Q, mapping) ==
    IF syms = <<>> THEN [ok |-> TRUE, Q |-> Q, mapping |-> mapping]
    ELSE LET X == Head(syms)
             ss == get_gotoshifts(a, sx, X)
             tt == get_gotoshifts(b, tx, X)
         IN IF ss = -1 /\ tt = -1
            THEN equivalent_symbols(a, b, sx, tx, Tail(syms), Q, mapping)
            ELSE IF (ss = -1) # (tt = -1)
            THEN [ok |-> FALSE, Q |-> Q, mapping |-> mapping]
            ELSE IF ss \in DOMAIN mapping
            THEN IF mapping[ss] # tt
                 THEN [ok |-> FALSE, Q |-> Q, mapping |-> mapping]
                 ELSE equivalent_symbols(a, b, sx, tx, Tail(syms), Q, mapping)
            ELSE equivalent_symbols(a, b, sx, tx, Tail(syms),
                                    Append(Q, <<ss, tt>>), DictSet(mapping, ss, tt))

\* the while loop of equivalent, then the comparison of the accept entries
RECURSIVE equivalent_loop(_, _, _, _)
equivalent_loop(a, b, Q, mapping) ==
    IF Q = <<>>
    THEN \A sx \in DOMAIN mapping : get_accepts(a, sx) = get_accepts(b, mapping[sx])
    ELSE LET sx == Head(Q)[1]
             tx == Head(Q)[2]
         IN IF get_reductions(a, sx) # get_reductions(b, tx) THEN FALSE
            ELSE LET r == equivalent_symbols(a, b, sx, tx,
                                             SetToSeq(a.terminals \cup a.nonterminals),
                                             Tail(Q), mapping)
                 IN r.ok /\ equivalent_loop(a, b, r.Q, r.mapping)

\* ParseTableNormalForm.equivalent
equivalent(a, b) ==
    IF <<a.terminals, a.nonterminals>> # <<b.terminals, b.nonterminals>> THEN FALSE
    ELSE equivalent_loop(a, b, <<<<0, 0>>>>, DictSet(<<>>, 0, 0))

(***************************************************************************)
(* Normal-form tables over the states 0, 1, 2, the terminal a and the      *)
(* nonterminal S, built with set_gotoshift, add_reduction and set_accept.  *)
(***************************************************************************)
NfStates == 2

NfMaxReductions == 2

\* the table with the transitions 0 -a-> ja and 0 -S-> jS (0: none), k1 and
\* k2 reductions by production 1 on $ in the states 1 and 2, accept on $ in
\* state 1 and, if acc2, in state 2
NFTable(ja, jS, k1, k2, acc2) ==
    LET t0 == ParseTableNormalForm
        t1 == IF ja = 0 THEN t0 ELSE nf_set_gotoshift(t0, 0, Syma, ja)
        t2 == IF jS = 0 THEN t1 ELSE nf_set_gotoshift(t1, 0, SymS, jS)
        t3 == IF k1 >= 1 THEN nf_add_reduction(t2, 1, Dollar, 1) ELSE t2
        t4 == IF k1 >= 2 THEN nf_add_reduction(t3, 1, Dollar, 1) ELSE t3
        t5 == IF k2 >= 1 THEN nf_add_reduction(t4, 2, Dollar, 1) ELSE t4
        t6 == IF k2 >= 2 THEN nf_add_reduction(t5, 2, Dollar, 1) ELSE t5
        t7 == nf_set_accept(t6, 1, Dollar)
    IN IF acc2 THEN nf_set_accept(t7, 2, Dollar) ELSE t7

NFTables ==
    {NFTable(ja, jS, k1, k2, acc2) :
        ja \in 1..NfStates, jS \in 0..NfStates, k1 \in 0..NfMaxReductions, k2 \in 0..1,
        acc2 \in BOOLEAN}

\* what every action on normal-form tables leaves alone
NFUnchanged ==
    UNCHANGED <<alg, G, w, parserVars, cnfVars, tree, check, T, I, j, stack, pi,
                args, grammar, Gp, states, transitions, first_sets, rules, follow_sets,
                action, goto, table>>

\* the calls a.equivalent(a), a.equivalent(b), b.equivalent(a),
\* b.equivalent(c) and a.equivalent(c) on the tables args = <<a, b, c>>
NFEquivalent ==
    /\ alg = "equivalent" /\ pc = "entry"
    /\ result' = [kind |-> "value",
                  aa |-> equivalent(args[1], args[1]),
                  ab |-> equivalent(args[1], args[2]),
                  ba |-> equivalent(args[2], args[1]),
                  bc |-> equivalent(args[2], args[3]),
                  ac |-> equivalent(args[1], args[3])]
    /\ pc' = "done"
    /\ NFUnchanged
    /\ UNCHANGED written

InitNF ==
    /\ alg = "equivalent"
    /\ args \in NFTables \X NFTables \X NFTables
    /\ G = <<>> /\ w = <<>>
    /\ pc = "entry"
    /\ result = NoResult
    /\ ParserIdle /\ CnfIdle /\ tree = NoTree
    /\ check = TRUE /\ T = <<>> /\ I = <<>> /\ j = 0 /\ stack = <<>> /\ pi = <<>>
    /\ grammar = <<>> /\ Gp = <<>> /\ states = <<>> /\ transitions = <<>>
    /\ first_sets = <<>> /\ rules = <<>> /\ follow_sets = <<>>
    /\ action = <<>> /\ goto = <<>> /\ table = <<>>
    /\ written = FALSE

NextNF == NFEquivalent

SpecNF == InitNF /\ [][NextNF]_vars

\* C13: ParseTableNormalForm.equivalent is an equivalence relation on parse
\* tables: a.equivalent(a) is true, a.equivalent(b) equals b.equivalent(a),
\* and a.equivalent(b) with b.equivalent(c) implies a.equivalent(c).
C13_EquivalentIsEquivalence ==
    (alg = "equivalent" /\ Done) =>
        /\ result.aa
        /\ result.ab = result.ba
        /\ (result.ab /\ result.bc) => result.ac

(***************************************************************************)
(* table.py: first_sets, follow_sets, ParseTable and build_slr_table, the  *)
(* second construction of the SLR table.  An item is a pair <<p, i>>.      *)
(***************************************************************************)
\* the inner while True of first_sets for the pair (p, k); st holds result,
\* nullable, Q, Rnext and m
RECURSIVE table_first_walk(_, _, _)
table_first_walk(st, p, k) ==
    LET A == p.left_side IN
    IF k < Len(p.right_side)
    THEN LET X == p.right_side[k + 1] IN
         IF IsTerminal(X)
         THEN [st EXCEPT !.m = (X \notin st.result[A]) \/ @,
                         !.result[A] = @ \cup {X}]
         ELSE LET st1 == [st EXCEPT !.Q = Append(@, <<X, A>>)] IN
              IF X \in st.nullable
              THEN table_first_walk(st1, p, k + 1)
              ELSE [st1 EXCEPT !.Rnext = Append(@, <<p, k>>)]
    ELSE [st EXCEPT !.m = (A \notin st.nullable) \/ @,
                    !.nullable = @ \cup {A}]

\* while R: ... of first_sets
RECURSIVE table_first_drain(_, _)
table_first_drain(st, R) ==
    IF R = <<>> THEN st
    ELSE table_first_drain(table_first_walk(st, Head(R)[1], Head(R)[2]), Tail(R))

\* the first while True of first_sets: R and Rnext are swapped after a pass
\* that changed something
RECURSIVE table_first_loop(_, _)
table_first_loop(st, R) ==
    LET st1 == table_first_drain([st EXCEPT !.m = FALSE, !.Rnext = <<>>], R) IN
    IF ~st1.m THEN st1 ELSE table_first_loop(st1, st1.Rnext)

\* for A, B in Q: A merges into B; returns the sets and the flag m
RECURSIVE table_merge_pass(_, _, _)
table_merge_pass(res, Q, m) ==
    IF Q = <<>> THEN [result |-> res, m |-> m]
    ELSE LET A == Head(Q)[1]
             B == Head(Q)[2]
         IN table_merge_pass([res EXCEPT ![B] = @ \cup res[A]], Tail(Q),
                             m \/ (res[A] \ res[B] # {}))

\* the merging loops of first_sets and follow_sets
RECURSIVE table_merge(_, _)
table_merge(res, Q) ==
    LET r == table_merge_pass(res, Q, FALSE) IN
    IF r.m THEN table_merge(r.result, Q) ELSE r.result

\* table.first_sets(G): the pair (result, nullable)
table_first_sets(g) ==
    LET st0 == [result |-> [A \in CFG_nonterminals(g) |-> {}], nullable |-> {},
                Q |-> <<>>, Rnext |-> <<>>, m |-> FALSE]
        R0 == [k \in 1..Len(g.productions) |-> <<g.productions[k], 0>>]
        st == table_first_loop(st0, R0)
    IN [result |-> table_merge(st.result, st.Q), nullable |-> st.nullable]

\* for X in reversed(p.right_side) of follow_sets, at position k (1-based)
RECURSIVE table_follow_walk(_, _, _, _, _)
table_follow_walk(st, fst, nullable, p, k) ==
    IF k = 0 THEN st
    ELSE LET X == p.right_side[k] IN
         IF IsTerminal(X)
         THEN table_follow_walk([st EXCEPT !.n = FALSE, !.F = {X}], fst, nullable, p, k - 1)
         ELSE LET st1 == [st EXCEPT !.result[X] = @ \cup st.F,
                                    !.Q = IF st.n THEN Append(@, <<p.left_side, X>>) ELSE @]
                  st2 == IF X \notin nullable THEN [st1 EXCEPT !.F = {}, !.n = FALSE] ELSE st1
              IN table_follow_walk([st2 EXCEPT !.F = @ \cup fst[X]], fst, nullable, p, k - 1)

\* for p in G.productions of follow_sets
RECURSIVE table_follow_rules(_, _, _, _)
table_follow_rules(st, fst, nullable, ps) ==
    IF ps = <<>> THEN st
    ELSE table_follow_rules(
            table_follow_walk([st EXCEPT !.n = TRUE, !.F = {}], fst, nullable,
                              Head(ps), Len(Head(ps).right_side)),
            fst, nullable, Tail(ps))

\* table.follow_sets(G, first, nullable)
table_follow_sets(g, fst, nullable) ==
    LET st0 == [result |-> [A \in CFG_nonterminals(g) |->
                               IF A = g.start THEN {Dollar} ELSE {}],
                Q |-> <<>>, n |-> TRUE, F |-> {}]
        st == table_follow_rules(st0, fst, nullable, g.productions)
    IN table_merge(st.result, st.Q)

\* ParseTable.__init__ (the SLR parse table of table.py)
SlrParseTable(g) == [REDUCE |-> <<>>, GOTOSHIFT |-> <<>>, grammar |-> g]

\* ParseTable.add_reduction: r is a production rule
pt_add_reduction(t, state, symbol, r) ==
    LET row == DictGet(t.REDUCE, state, <<>>)
        cell == DictGet(row, symbol, <<>>)
    IN [t EXCEPT !.REDUCE = DictSet(@, state, DictSet(row, symbol, Append(cell, r)))]

\* ParseTable.set_gotoshift
pt_set_gotoshift(t, state, symbol, sx) ==
    [t EXCEPT !.GOTOSHIFT = DictSet(@, state, DictSet(DictGet(@, state, <<>>), symbol, sx))]

\* for a in follow[A]: table.add_reduction(s, a, p)
RECURSIVE pt_add_reductions(_, _, _, _)
pt_add_reductions(t, state, las, p) ==
    IF las = <<>> THEN t
    ELSE pt_add_reductions(pt_add_reduction(t, state, Head(las), p), state, Tail(las), p)

\* the dict d of build_slr_table as the sequence of its (key, value) pairs in
\* insertion order
d_has(d, X) == \E k \in 1..Len(d) : d[k][1] = X

d_add(d, X, item) ==
    IF d_has(d, X)
    THEN [k \in 1..Len(d) |-> IF d[k][1] = X THEN <<X, d[k][2] \cup {item}>> ELSE d[k]]
    ELSE Append(d, <<X, {item}>>)

d_get(d, X) == d[CHOOSE k \in 1..Len(d) : d[k][1] = X][2]

d_del(d, X) == FilterSeq(d, {e \in Range(d) : e[1] # X})

\* build_slr_table.CLOSE(s); cs holds Q, d and table
RECURSIVE CLOSE(_, _, _, _)
CLOSE(g, follow, cs, sx) ==
    IF cs.Q = <<>> THEN cs
    ELSE LET p == Head(cs.Q)[1]
             k == Head(cs.Q)[2]
             Q1 == Tail(cs.Q)
         IN IF k < Len(p.right_side)
            THEN LET X == p.right_side[k + 1]
                     P_X == productions_with_left_side(g, X)
                     Q2 == IF IsNonterminal(X) /\ ~d_has(cs.d, X)
                           THEN Q1 \o [m \in 1..Len(P_X) |-> <<P_X[m], 0>>]
                           ELSE Q1
                 IN CLOSE(g, follow,
                          [cs EXCEPT !.Q = Q2, !.d = d_add(cs.d, X, <<p, k + 1>>)], sx)
            ELSE CLOSE(g, follow,
                       [cs EXCEPT !.Q = Q1,
                                  !.table = pt_add_reductions(@, sx, SetToSeq(follow[p.left_side]), p)],
                       sx)

\* for X, IX in d.items() of PROCESS: bs holds table, I and states; the
\* kernel I[k] has the state number k + 1, the next number is len(I) + 2
RECURSIVE number_states(_, _, _)
number_states(bs, sx, d) ==
    IF d = <<>> THEN bs
    ELSE LET X == Head(d)[1]
             key == Head(d)[2]
         IN IF Contains(bs.I, key)
            THEN number_states(
                    [bs EXCEPT !.table = pt_set_gotoshift(@, sx, X, IndexOf(bs.I, key) + 1)],
                    sx, Tail(d))
            ELSE LET jx == Len(bs.I) + 2 IN
                 number_states(
                    [bs EXCEPT !.I = Append(@, key),
                               !.states = Append(@, <<key, jx>>),
                               !.table = pt_set_gotoshift(@, sx, X, jx)],
                    sx, Tail(d))

\* build_slr_table.PROCESS(s) with the queue Q
PROCESS(g, follow, bs, Q, sx) ==
    LET cs == CLOSE(g, follow, [Q |-> Q, d |-> <<>>, table |-> bs.table], sx)
    IN number_states([bs EXCEPT !.table = cs.table], sx, cs.d)

\* while states: ... of build_slr_table
RECURSIVE build_loop(_, _, _)
build_loop(g, follow, bs) ==
    IF bs.states = <<>> THEN bs.table
    ELSE LET Is == Head(bs.states)[1]
             sx == Head(bs.states)[2]
         IN build_loop(g, follow,
                       PROCESS(g, follow, [bs EXCEPT !.states = Tail(@)], SetToSeq(Is), sx))

\* table.build_slr_table(G, follow).  State 0 is closed with S already in d,
\* state 1 is the state after S; the kernels of the first loop are pairwise
\* different, so that numbering them needs no lookup
build_slr_table(g, follow) ==
    LET S == g.start
        P_S == productions_with_left_side(g, S)
        cs == CLOSE(g, follow,
                    [Q |-> [m \in 1..Len(P_S) |-> <<P_S[m], 0>>],
                     d |-> <<<<S, {}>>>>,
                     table |-> SlrParseTable(g)], 0)
        Q1 == SetToSeq(d_get(cs.d, S))
        bs0 == number_states([table |-> pt_set_gotoshift(cs.table, 0, S, 1),
                              I |-> <<>>, states |-> <<>>], 0, d_del(cs.d, S))
    IN build_loop(g, follow, PROCESS(g, follow, bs0, Q1, 1))

\* table.get_slr_table(G)
get_slr_table(g) ==
    LET fn == table_first_sets(g)
    IN build_slr_table(g, table_follow_sets(g, fn.result, fn.nullable))

ACCEPT_STATE == 1

\* pindex of ParseTable.to_normal_form: a dict comprehension keeps the last
\* number of a production that occurs twice
pindex(ps, p) == CHOOSE k \in 1..Len(ps) : ps[k] = p /\ \A m \in (k + 1)..Len(ps) : ps[m] # p

\* the cells of one row of _REDUCE, then of all rows
RECURSIVE nf_add_cell(_, _, _, _, _)
nf_add_cell(t, ps, q, a, cell) ==
    IF cell = <<>> THEN t
    ELSE nf_add_cell(nf_add_reduction(t, q, a, pindex(ps, Head(cell))), ps, q, a, Tail(cell))

RECURSIVE nf_add_cells(_, _, _, _)
nf_add_cells(t, ps, red, keys) ==
    IF keys = <<>> THEN t
    ELSE LET q == Head(keys)[1]
             a == Head(keys)[2]
         IN nf_add_cells(nf_add_cell(t, ps, q, a, red[q][a]), ps, red, Tail(keys))

RECURSIVE nf_add_gotoshifts(_, _, _)
nf_add_gotoshifts(t, gs, keys) ==
    IF keys = <<>> THEN t
    ELSE LET q == Head(keys)[1]
             X == Head(keys)[2]
         IN nf_add_gotoshifts(nf_set_gotoshift(t, q, X, gs[q][X]), gs, Tail(keys))

\* the (row, column) keys of a dict of dicts
CellKeys(dd) == SetToSeq({<<q, a>> \in UNION {{q} \X DOMAIN dd[q] : q \in DOMAIN dd} : TRUE})

\* ParseTable.to_normal_form
to_normal_form(t) ==
    LET t1 == nf_add_cells(ParseTableNormalForm, t.grammar.productions, t.REDUCE,
                           CellKeys(t.REDUCE))
        t2 == nf_add_gotoshifts(t1, t.GOTOSHIFT, CellKeys(t.GOTOSHIFT))
    IN nf_set_accept(t2, ACCEPT_STATE, Dollar)

(***************************************************************************)
(* The two tables side by side.  The table of slr.ParsingTable is read     *)
(* through action(i, a) and goto(i, A) into a normal form: shift j and     *)
(* GOTO j as the move to j, reduce p as reduction p, accept as accept.     *)
(***************************************************************************)
RECURSIVE nf_add_actions(_, _, _, _)
nf_add_actions(t, ix, a, cell) ==
    IF cell = <<>> THEN t
    ELSE LET e == Head(cell)
             t1 == IF e[1] = SHIFT THEN nf_set_gotoshift(t, ix, a, e[2])
                   ELSE IF e[1] = REDUCE THEN nf_add_reduction(t, ix, a, e[2])
                   ELSE nf_set_accept(t, ix, a)
         IN nf_add_actions(t1, ix, a, Tail(cell))

RECURSIVE nf_add_action_cells(_, _, _)
nf_add_action_cells(t, act, keys) ==
    IF keys = <<>> THEN t
    ELSE LET ix == Head(keys)[1]
             a == Head(keys)[2]
         IN nf_add_action_cells(nf_add_actions(t, ix, a, act[ix][a]), act, Tail(keys))

action_goto_normal_form(act, gt) ==
    nf_add_gotoshifts(nf_add_action_cells(ParseTableNormalForm, act, CellKeys(act)),
                      gt, CellKeys(gt))

\* the same table up to a renumbering of the states that keeps state 0:
\* equivalent in both directions, so that the renumbering is one-to-one
SameUpToRenumbering(a, b) == equivalent(a, b) /\ equivalent(b, a)

\* table.get_slr_table(grammar).to_normal_form(), for the grammar that
\* slr.ParsingTable was given
GetSlrTable ==
    /\ alg = "slr" /\ pc = "done" /\ table = <<>>
    /\ table' = to_normal_form(get_slr_table(grammar))
    /\ UNCHANGED <<pc, result, i, Gp, states, transitions, first_sets, rules,
                   follow_sets, action, goto>>
    /\ SlrUnchanged
    /\ UNCHANGED written

BothTablesBuilt == alg = "slr" /\ pc = "done" /\ table # <<>>

\* C14: for every grammar, slr.ParsingTable(G) builds a table, and it is the
\* table of table.get_slr_table(G) up to a renumbering of the states: the
\* same shifts and gotos, the same reductions on each lookahead, the same
\* accept entries.
C14_TwoConstructionsAgree ==
    BothTablesBuilt =>
        /\ result.kind = "table"
        /\ SameUpToRenumbering(action_goto_normal_form(action, goto), table)

NextSLRTables == NextSLR \/ GetSlrTable

SpecSLR == InitSLR /\ [][NextSLRTables]_vars

(***************************************************************************)
(* Equality and hashing of symbols (cfg.py Symbol, util/mixin.py Keyed,    *)
(* Subscripted, Primed).  A symbol is the record of its class, identifier  *)
(* and subscript; sub is 0 for the classes without a subscript.            *)
(***************************************************************************)
\* Symbol.sort_num and its overrides
sort_num(x) ==
    IF IsNonterminal(x) THEN -1
    ELSE IF x.cls = "Terminal" THEN 1
    ELSE IF x.cls = "Epsilon" THEN 2
    ELSE 3

\* Symbol.__key__
key(x) == <<sort_num(x), x.name>>

\* Keyed.__hash__: the hash of the key; equal keys have equal hashes, and the
\* key stands for its hash
hash(x) == key(x)

\* Keyed.__eq__, which Symbol overrides
Keyed_eq(x, y) == key(x) = key(y)

\* Symbol.__eq__
Symbol_eq(x, y) == x.cls = y.cls /\ x.name = y.name

\* isinstance(y, Subscripted) and isinstance(y, Primed)
IsSubscripted(y) == y.cls \in {"SubscriptedNonterminal", "PrimedNonterminal"}

IsPrimed(y) == y.cls = "PrimedNonterminal"

\* Subscripted.__eq__; the super call reaches Symbol.__eq__
Subscripted_eq(x, y) == IsSubscripted(y) /\ x.sub = y.sub /\ Symbol_eq(x, y)

\* Primed.__eq__; the super call reaches Subscripted.__eq__
Primed_eq(x, y) == IsPrimed(y) /\ Subscripted_eq(x, y)

\* x.__eq__(y) by the method resolution order of the class of x
method_eq(x, y) ==
    IF x.cls = "PrimedNonterminal" THEN Primed_eq(x, y)
    ELSE IF x.cls = "SubscriptedNonterminal" THEN Subscripted_eq(x, y)
    ELSE Symbol_eq(x, y)

\* type(y) is a proper subclass of type(x)
IsProperSubclass(c, d) ==
    \/ c \in {"SubscriptedNonterminal", "PrimedNonterminal"} /\ d = "Nonterminal"
    \/ c \in {"Marker", "Epsilon"} /\ d = "Terminal"

\* x == y: the method of the right operand is tried first when its class is
\* a proper subclass of the class of the left operand
symbol_equals(x, y) ==
    IF IsProperSubclass(y.cls, x.cls) THEN method_eq(y, x) ELSE method_eq(x, y)

SymMaxSub == 2

SymNames == {<<"A">>, <<"a">>, <<"$">>, <<>>}

\* the symbols the constructors build over these identifiers
Symbols ==
    {Nonterminal(n) : n \in SymNames} \cup {Terminal(n) : n \in SymNames}
    \cup {Marker(n) : n \in SymNames} \cup {Epsilon}
    \cup {SubscriptedNonterminal(n, k) : n \in SymNames, k \in 1..SymMaxSub}
    \cup {PrimedNonterminal(n, k) : n \in SymNames, k \in 1..SymMaxSub}

\* s == t, t == s, hash(s) and hash(t) for args = <<s, t>>
SymCompare ==
    /\ alg = "symbol_eq" /\ pc = "entry"
    /\ result' = [kind |-> "value",
                  st |-> symbol_equals(args[1], args[2]),
                  ts |-> symbol_equals(args[2], args[1]),
                  hs |-> hash(args[1]),
                  ht |-> hash(args[2])]
    /\ pc' = "done"
    /\ NFUnchanged
    /\ UNCHANGED written

InitSym ==
    /\ alg = "symbol_eq"
    /\ args \in Symbols \X Symbols
    /\ G = <<>> /\ w = <<>>
    /\ pc = "entry"
    /\ result = NoResult
    /\ ParserIdle /\ CnfIdle /\ tree = NoTree
    /\ check = TRUE /\ T = <<>> /\ I = <<>> /\ j = 0 /\ stack = <<>> /\ pi = <<>>
    /\ grammar = <<>> /\ Gp = <<>> /\ states = <<>> /\ transitions = <<>>
    /\ first_sets = <<>> /\ rules = <<>> /\ follow_sets = <<>>
    /\ action = <<>> /\ goto = <<>> /\ table = <<>>
    /\ written = FALSE

NextSym == SymCompare

SpecSym == InitSym /\ [][NextSym]_vars

\* C15: for two symbols s and t, s == t holds exactly when they are of the
\* same variant with the same identifier, subscript and prime count; s == t
\* and t == s give the same answer; equal symbols have equal hashes; and a
\* Marker and a Terminal with the same identifier are unequal both ways.
C15_SymbolEquality ==
    (alg = "symbol_eq" /\ Done) =>
        LET sx == args[1]
            tx == args[2]
        IN /\ result.st = (sx.cls = tx.cls /\ sx.name = tx.name /\ sx.sub = tx.sub)
           /\ result.st = result.ts
           /\ result.st => result.hs = result.ht
           /\ (sx.cls = "Marker" /\ tx.cls = "Terminal" /\ sx.name = tx.name)
                  => (~result.st /\ ~result.ts)

\* a Marker and a Terminal with the identifier $ were compared and are unequal
C15_Witness ==
    /\ alg = "symbol_eq" /\ Done
    /\ args = <<Marker(<<"$">>), Terminal(<<"$">>)>>
    /\ ~result.st /\ ~result.ts

(***************************************************************************)
(* ContextFreeGrammar(list) and ContextFreeGrammar(Nu, Sigma, P, S): the   *)
(* checks of the two constructors, then the grammar rebuilt from the       *)
(* productions of the grammar just built.                                  *)
(***************************************************************************)
\* ContextFreeGrammar._check_productions on a list of production rules:
\* "ok" or the name of the exception
check_productions(ps) == IF ps = <<>> THEN "ValueError" ELSE "ok"

\* the checks of _check_tuple on one production
production_in_tuple(Nu, Sigma, p) ==
    /\ p.left_side \in Nu
    /\ \A k \in 1..Len(p.right_side) :
           p.right_side[k] \in Sigma \/ p.right_side[k] \in Nu

\* _check_tuple with the membership test of the start symbol left out
check_tuple_without_start_membership(Nu, Sigma, ps, st) ==
    IF \E n \in Nu : ~IsNonterminal(n) THEN "TypeError"
    ELSE IF \E t \in Sigma : ~IsTerminal(t) THEN "TypeError"
    ELSE IF ps = <<>> THEN "ValueError"
    ELSE IF \E k \in 1..Len(ps) : ~production_in_tuple(Nu, Sigma, ps[k]) THEN "ValueError"
    ELSE IF ~IsNonterminal(st) THEN "TypeError"
    ELSE "ok"

\* ContextFreeGrammar._check_tuple: "ok" or the name of the exception, in
\* the order of the checks
check_tuple(Nu, Sigma, ps, st) ==
    IF \E n \in Nu : ~IsNonterminal(n) THEN "TypeError"
    ELSE IF \E t \in Sigma : ~IsTerminal(t) THEN "TypeError"
    ELSE IF ps = <<>> THEN "ValueError"
    ELSE IF \E k \in 1..Len(ps) : ~production_in_tuple(Nu, Sigma, ps[k]) THEN "ValueError"
    ELSE IF ~IsNonterminal(st) THEN "TypeError"
    ELSE IF st \notin Nu THEN "ValueError"
    ELSE "ok"

\* ContextFreeGrammar.__init__ with one argument (a list) or four
CFGConstruct ==
    /\ alg = "cfg" /\ pc = "entry"
    /\ LET e == IF Len(args) = 1 THEN check_productions(args[1])
                ELSE check_tuple(args[1], args[2], args[3], args[4]) IN
       IF e # "ok"
       THEN /\ pc' = "done" /\ result' = Raised(e)
            /\ UNCHANGED grammar
       ELSE /\ pc' = "built" /\ UNCHANGED result
            /\ grammar' = IF Len(args) = 1 THEN init_productions(args[1])
                          ELSE init_tuple(args[1], args[2], args[3], args[4])
    /\ UNCHANGED <<alg, G, w, parserVars, cnfVars, tree, check, T, I, j, stack, pi,
                   args, Gp, states, transitions, first_sets, rules, follow_sets,
                   action, goto, table>>
    /\ UNCHANGED written

\* ContextFreeGrammar(G.productions) for the grammar G just built; the
\* rebuilt grammar is kept in Gp
CFGRebuild ==
    /\ alg = "cfg" /\ pc = "built"
    /\ LET e == check_productions(grammar.productions) IN
       IF e # "ok"
       THEN /\ result' = Raised(e) /\ UNCHANGED Gp
       ELSE /\ result' = [kind |-> "grammar", parse |-> <<>>]
            /\ Gp' = init_productions(grammar.productions)
    /\ pc' = "done"
    /\ UNCHANGED <<alg, G, w, parserVars, cnfVars, tree, check, T, I, j, stack, pi,
                   args, grammar, states, transitions, first_sets, rules, follow_sets,
                   action, goto, table>>
    /\ UNCHANGED written

TupMaxRules == 2

TupMaxRhs == 1

\* members offered for Nu and Sigma (one of the wrong class each), left
\* sides and start symbols
TupNu == {SymS, SymA, Syma}

TupSigma == {Syma, Symb, SymA}

TupRules == {ProductionRule(l, r) : l \in TupNu, r \in SeqsUpTo(NTs \cup Ts, TupMaxRhs)}

InitCFG ==
    /\ alg = "cfg"
    /\ \E m \in 0..TupMaxRules : \E P \in [1..m -> TupRules] :
           args \in {<<P>>} \cup ((SUBSET TupNu) \X (SUBSET TupSigma) \X {P} \X TupNu)
    /\ G = <<>> /\ w = <<>>
    /\ pc = "entry"
    /\ result = NoResult
    /\ ParserIdle /\ CnfIdle /\ tree = NoTree
    /\ check = TRUE /\ T = <<>> /\ I = <<>> /\ j = 0 /\ stack = <<>> /\ pi = <<>>
    /\ grammar = <<>> /\ Gp = <<>> /\ states = <<>> /\ transitions = <<>>
    /\ first_sets = <<>> /\ rules = <<>> /\ follow_sets = <<>>
    /\ action = <<>> /\ goto = <<>> /\ table = <<>>
    /\ written = FALSE

NextCFG == CFGConstruct \/ CFGRebuild

SpecCFG == InitCFG /\ [][NextCFG]_vars

Rebuilt == alg = "cfg" /\ Done /\ result.kind = "grammar"

SameGrammar(g, h) ==
    /\ h.productions = g.productions
    /\ CFG_nonterminals(h) = CFG_nonterminals(g)
    /\ CFG_terminals(h) = CFG_terminals(g)
    /\ h.start = g.start

\* C16: for every grammar G, however it was built, ContextFreeGrammar(
\* G.productions) has the productions of G in the same order, the same
\* nonterminals, the same terminals and the same start symbol.
C16_RoundTrip == Rebuilt => SameGrammar(grammar, Gp)

\* every nonterminal and terminal of g occurs in its productions and the
\* start symbol is the left side of the first production
InferredFromProductions(g) ==
    /\ g.start = g.productions[1].left_side
    /\ g.extra_nonterminals \subseteq
           {g.productions[k].left_side : k \in 1..Len(g.productions)}
    /\ g.extra_terminals = {}

\* C16 as amended: the round trip holds for every grammar whose start symbol
\* is the left side of its first production and whose nonterminals and
\* terminals all occur in its productions, as for every grammar built from a
\* production list.
C16_RoundTripOfInferred ==
    (Rebuilt /\ InferredFromProductions(grammar)) => SameGrammar(grammar, Gp)

\* a grammar built from a 4-tuple that names only what the productions hold
\* was rebuilt from its productions
C16_Witness ==
    /\ Rebuilt /\ Len(args) = 4
    /\ InferredFromProductions(grammar)
    /\ Len(grammar.productions) = 2
    /\ grammar.productions[1].left_side # grammar.productions[2].left_side
    /\ SameGrammar(grammar, Gp)

\* Nu is a set of nonterminals and Sigma a set of terminals
WellTyped(Nu, Sigma) ==
    (\A n \in Nu : IsNonterminal(n)) /\ (\A t \in Sigma : IsTerminal(t))

\* the four failures of the claim
TupleInvalid(Nu, Sigma, ps, st) ==
    \/ \E k \in 1..Len(ps) : \E m \in 1..Len(ps[k].right_side) :
           ps[k].right_side[m] \notin Nu \cup Sigma
    \/ \E k \in 1..Len(ps) : ps[k].left_side \notin Nu
    \/ st \notin Nu
    \/ ps = <<>>

TupleCall == alg = "cfg" /\ Len(args) = 4 /\ pc \in {"built", "done"}

\* C17: for a set Nu of nonterminals and a set Sigma of terminals,
\* ContextFreeGrammar(Nu, Sigma, P, S) raises and builds no grammar when a
\* right-side symbol is in neither set, a left side is not in Nu, S is not in
\* Nu or P is empty; otherwise it builds the grammar whose nonterminals,
\* terminals, productions and start are Nu, Sigma, P and S.
C17_TupleValidation ==
    (TupleCall /\ WellTyped(args[1], args[2])) =>
        IF TupleInvalid(args[1], args[2], args[3], args[4])
        THEN /\ pc = "done" /\ result.kind \in {"ValueError", "TypeError"}
             /\ grammar = <<>>
        ELSE /\ grammar # <<>>
             /\ CFG_nonterminals(grammar) = args[1]
             /\ CFG_terminals(grammar) = args[2]
             /\ grammar.productions = args[3]
             /\ grammar.start = args[4]

\* a valid 4-tuple with a nonterminal and a terminal that no production uses
\* was accepted
C17_Witness ==
    /\ TupleCall /\ WellTyped(args[1], args[2])
    /\ ~TupleInvalid(args[1], args[2], args[3], args[4])
    /\ args[1] = {SymS, SymA} /\ args[2] = {Syma, Symb}
    /\ args[3] = <<ProductionRule(SymA, <<Syma>>)>> /\ args[4] = SymS
    /\ grammar.start = SymS

(***************************************************************************)
(* Properties of slr.augmented, on the grammar Automaton.__init__ keeps.   *)
(***************************************************************************)
AugmentedCalled == alg = "slr" /\ pc # "entry"

\* the start symbol of g is the left side of exactly one production and
\* occurs on no right side
StartOnExactlyOneLeftSide(g) ==
    /\ Cardinality({k \in 1..Len(g.productions) : g.productions[k].left_side = g.start}) = 1
    /\ \A k \in 1..Len(g.productions) : ~Contains(g.productions[k].right_side, g.start)

\* C18: augmented(G) returns G unchanged exactly when the start symbol of G
\* is the left side of exactly one production and occurs on no right side;
\* otherwise the result starts with a primed copy of the start of G that is
\* no nonterminal of G, its first production is new start -> start of G, and
\* the productions of G follow in their order.
C18_Augmented ==
    AugmentedCalled =>
        IF StartOnExactlyOneLeftSide(grammar)
        THEN Gp = grammar
        ELSE /\ Gp # grammar
             /\ Gp.start.cls = "PrimedNonterminal"
             /\ Gp.start.name = grammar.start.name
             /\ Gp.start \notin CFG_nonterminals(grammar)
             /\ Gp.productions =
                    <<ProductionRule(Gp.start, <<grammar.start>>)>> \o grammar.productions

(***************************************************************************)
(* The parsers of aho_ullman.py side by side: the two backtrack parsers,   *)
(* Cocke-Younger-Kasami, Earley, and right_parse_from_parse_lists called   *)
(* on the lists of earley_parse or on lists the caller made (here: empty). *)
(***************************************************************************)
InitRP ==
    /\ alg = "right_parse"
    /\ \E m \in 1..MaxRules : G \in Grammars(m, MaxRhs)
    /\ start(G) = SymS
    /\ w \in Inputs(MaxLen)
    /\ pc = "entry"
    /\ result = NoResult
    /\ ParserIdle /\ CnfIdle /\ tree = NoTree
    /\ check = TRUE /\ T = <<>> /\ j = 0 /\ stack = <<>> /\ pi = <<>>
    /\ I = [jx \in 0..Len(w) |-> <<>>]
    /\ SlrIdle
    /\ written = FALSE

InitParsers == Init \/ InitCYK \/ InitEarley \/ InitRP

NextParsers == Next \/ NextCYK \/ NextEarley

SpecParsers == InitParsers /\ [][NextParsers]_vars

\* an input token is not a terminal of the grammar
TokenNotInGrammar == \E k \in 1..Len(w) : w[k] \notin terminals(G)

\* the precondition of the parser in alg is violated
PreconditionViolated ==
    \/ TokenNotInGrammar
    \/ alg = "topdown" /\ left_recursive(G)
    \/ alg = "bottomup" /\ (has_empty_rules(G) \/ cyclic(G))
    \/ alg = "cyk" /\ (has_empty_rules(G) \/ (check /\ ~is_cnf(G)))
    \/ alg = "right_parse" /\ cyclic(G)

\* no configuration, table cell, parse list or parse has been computed
NothingComputed ==
    /\ alg \in {"topdown", "bottomup"} => alpha = <<>> /\ beta = <<>>
    /\ alg = "cyk" => T = <<>>
    /\ alg = "earley" => I = <<>>
    /\ alg = "right_parse" => stack = <<>> /\ pi = <<>>

ParserEntered ==
    /\ alg \in {"topdown", "bottomup", "cyk", "earley", "right_parse"}
    /\ pc # "entry"

\* C19: a parser whose precondition is violated (top-down: left-recursive
\* grammar; bottom-up: e-production or cycle; CYK: e-production, or not in
\* Chomsky normal form with check on; right-parse extraction: cyclic grammar;
\* all: an input token that is no terminal of the grammar) raises at entry,
\* before it computes a configuration, table cell or parse list and before
\* it writes to out.
C19_ChecksAtEntry ==
    (ParserEntered /\ PreconditionViolated) =>
        /\ pc = "done" /\ result.kind = "ValueError"
        /\ NothingComputed
        /\ ~written

\* bottom-up on a cyclic grammar without e-productions and an input over
\* its terminals has raised
C19_Witness ==
    /\ alg = "bottomup" /\ pc = "done" /\ result.kind = "ValueError"
    /\ cyclic(G) /\ ~has_empty_rules(G) /\ ~TokenNotInGrammar /\ w # <<>>
    /\ alpha = <<>> /\ ~written

(***************************************************************************)
(* FOLLOW by its definition, from FIRST and nullability by theirs, and the *)
(* entries of the SLR table against the LR(0) automaton.                   *)
(***************************************************************************)
FirstTableOf(g) ==
    [A \in CFG_nonterminals(g) |->
        [terminals |-> FirstOf(g, A), nullable |-> A \in NullableSet(g)]]

RECURSIVE FollowFix(_, _, _)
FollowFix(g, fst, tbl) ==
    LET t2 == FollowFullPass(g, fst, tbl) IN
    IF t2 = tbl THEN tbl ELSE FollowFix(g, fst, t2)

\* FOLLOW(A) for every nonterminal A of g, with $ in FOLLOW of the start
FollowOf(g) == FollowFix(g, FirstTableOf(g), follow_table_init(g))

SlrTableBuilt == alg = "slr" /\ pc = "done" /\ result.kind = "table"

\* the items of state ix of the automaton
StateItems(ix) == Range(closure_all_items(Gp, states[ix + 1]))

\* ParsingTable.action(i, a) as a set
ActionCell(ix, a) == Range(DictGet(action[ix], a, <<>>))

StateNumbers == 0..(Len(states) - 1)

TableSymbols == CFG_nonterminals(Gp) \cup CFG_terminals(Gp) \cup {Dollar}

ShiftsAreTransitions ==
    \A ix \in StateNumbers, jx \in StateNumbers, a \in TableSymbols :
        (<<SHIFT, jx>> \in ActionCell(ix, a))
            <=> (IsTerminal(a) /\ <<ix, a, jx>> \in transitions)

GotosAreTransitions ==
    \A ix \in StateNumbers, jx \in StateNumbers, A \in TableSymbols :
        (DictGet(goto[ix], A, -1) = jx)
            <=> (IsNonterminal(A) /\ <<ix, A, jx>> \in transitions)

AcceptsAreStartItems ==
    \A ix \in StateNumbers, a \in TableSymbols :
        (<<ACCEPT>> \in ActionCell(ix, a))
            <=> (a = Dollar /\ \E item \in StateItems(ix) :
                                  complete(item) /\ item.production.left_side = Gp.start)

\* production number p is the index of the production in Gp.productions,
\* counted from 0
ReducesAreFollowItems ==
    LET flw == FollowOf(Gp) IN
    \A ix \in StateNumbers, a \in TableSymbols, p \in 0..(Len(Gp.productions) - 1) :
        LET pr == Gp.productions[p + 1] IN
        (<<REDUCE, p>> \in ActionCell(ix, a))
            <=> (/\ pr.left_side # Gp.start
                 /\ LRItem(pr, Len(pr.right_side)) \in StateItems(ix)
                 /\ a \in flw[pr.left_side])

\* the one failure of the construction: the start symbol has no production
FailsOnlyWithoutStartRule ==
    (alg = "slr" /\ pc = "done" /\ result.kind # "table")
        => productions_with_left_side(grammar, grammar.start) = <<>>

\* C20: in the table of slr.ParsingTable(G), shift j is in ACTION[i][a]
\* exactly for the transitions i -a-> j on a terminal, GOTO[i][A] = j exactly
\* for the transitions i -A-> j on a nonterminal, accept is in ACTION[i][$]
\* exactly when state i holds the completed item of the augmented start
\* rule, and reduce p is in ACTION[i][a] exactly when state i holds the
\* completed item of production p of the augmented grammar, its left side A
\* is not the augmented start and a is in FOLLOW(A); no conflict makes the
\* construction fail.
C20_TableEntries ==
    /\ SlrTableBuilt =>
          /\ ShiftsAreTransitions
          /\ GotosAreTransitions
          /\ AcceptsAreStartItems
          /\ ReducesAreFollowItems
    /\ FailsOnlyWithoutStartRule

(***************************************************************************)
(* The LR(0) automaton of slr.Automaton(G) once its while loop has ended.  *)
(***************************************************************************)
AutomatonBuilt ==
    /\ alg = "slr"
    /\ pc \in {"first", "first_pass", "follow", "follow_pass", "table", "done"}
    /\ result.kind # "ValueError"

KernelSet(ix) == Range(states[ix + 1])

\* the items of state ix with the dot right before X, the dot advanced
AdvancedPast(ix, X) ==
    {dot_advanced(item) : item \in {it \in StateItems(ix) : lr_after_dot(it) = X}}

\* the states reached from state 0 along the transitions, from the set seen
RECURSIVE ReachableStates(_)
ReachableStates(seen) ==
    LET more == seen \cup {t[3] : t \in {u \in transitions : u[1] \in seen}} IN
    IF more = seen THEN seen ELSE ReachableStates(more)

StartItemIsStateZero ==
    LET p0 == productions_with_left_side(Gp, Gp.start) IN
    /\ Len(p0) = 1
    /\ KernelSet(0) = {LRItem(p0[1], 0)}

KernelsAreDistinct ==
    \A ix \in StateNumbers, jx \in StateNumbers :
        KernelSet(ix) = KernelSet(jx) => ix = jx

AllStatesReachable == ReachableStates({0}) = StateNumbers

TransitionsAreGotos ==
    \A ix \in StateNumbers, X \in TableSymbols :
        LET out == {t \in transitions : t[1] = ix /\ t[2] = X} IN
        IF AdvancedPast(ix, X) # {}
        THEN /\ Cardinality(out) = 1
             /\ \A t \in out : t[3] \in StateNumbers
                               /\ KernelSet(t[3]) = AdvancedPast(ix, X)
        ELSE out = {}

\* C21: in the automaton of slr.Automaton(G) state 0 is the closure of the
\* item of the augmented start rule with the dot at 0, no two states have
\* the same set of kernel items, every state is reachable from state 0, and
\* state i has exactly one transition on X, to the state whose kernel items
\* are the items of i with the dot advanced past X, when some item of i has
\* X right after the dot, and none otherwise.
C21_AutomatonShape ==
    AutomatonBuilt =>
        /\ StartItemIsStateZero
        /\ KernelsAreDistinct
        /\ AllStatesReachable
        /\ TransitionsAreGotos
        /\ \A t \in transitions : t[1] \in StateNumbers /\ t[2] \in TableSymbols

\* an automaton with a state entered from two different states
C21_Witness ==
    /\ AutomatonBuilt
    /\ Len(states) >= 3
    /\ \E t \in transitions, u \in transitions :
           t[3] = u[3] /\ t[1] # u[1] /\ t[1] # t[3] /\ u[1] # u[3]

(***************************************************************************)
(* aho_ullman.left_parse_from_parse_table on the table of the CYK          *)
(* algorithm.  gen walks the sets t[i][k] and t[i+k][j-k] in the iteration *)
(* order of Python sets, which is no function of the production numbers:   *)
(* the pair (B, C) it stops at is any pair of the first k that has one.    *)
(***************************************************************************)
\* the raise of ParseError among the results of gen: no production has number 0
ParseError == <<0>>

\* the splits k of gen(i, j, A) with a rule A -> B C, B in t[i][k] and C in
\* t[i+k][j-k]
gen_splits(g, tt, ix, jx, A) ==
    {k \in 1..(jx - 1) :
        \E B \in tt[ix][k], C \in tt[ix + k][jx - k] :
            Contains(g, ProductionRule(A, <<B, C>>))}

\* the pairs (B, C) the loops of gen can stop at for the split k
gen_pairs(g, tt, ix, jx, A, k) ==
    {bc \in tt[ix][k] \X tt[ix + k][jx - k] :
        Contains(g, ProductionRule(A, <<bc[1], bc[2]>>))}

\* [m] + gen(i, k, B) + gen(i + k, j - k, C), ParseError when a call raises
gen_concat(m, left, right) ==
    IF left = ParseError \/ right = ParseError THEN ParseError
    ELSE <<m>> \o left \o right

\* gen(i, j, A): the results the call can return, ParseError for the raise
RECURSIVE gen(_, _, _, _, _, _)
gen(g, u, tt, ix, jx, A) ==
    IF jx = 1
    THEN LET p == ProductionRule(A, <<u[ix]>>) IN
         IF Contains(g, p) THEN {<<IndexOf(g, p)>>} ELSE {ParseError}
    ELSE LET ks == gen_splits(g, tt, ix, jx, A) IN
         IF ks = {} THEN {ParseError}
         ELSE LET k == CHOOSE x \in ks : \A y \in ks : x <= y IN
              UNION {{gen_concat(IndexOf(g, ProductionRule(A, <<bc[1], bc[2]>>)), l, r) :
                          l \in gen(g, u, tt, ix, k, bc[1]),
                          r \in gen(g, u, tt, ix + k, jx - k, bc[2])} :
                     bc \in gen_pairs(g, tt, ix, jx, A, k)}

\* left_parse_from_parse_table(G, w, T, check) on the returned table
LeftParseFromTable ==
    /\ alg = "cyk" /\ pc = "done" /\ result.kind = "table"
    /\ \E r \in gen(G, w, T, 1, Len(w), start(G)) :
          result' = IF r = ParseError THEN Raised("ParseError") ELSE Returned(r)
    /\ pc' = "parsed"
    /\ UNCHANGED <<T, i, j, written>>
    /\ CykUnchanged

GenMaxRules == 4

\* the rules over S and A with one terminal or two nonterminals on the right
GenRules ==
    {ProductionRule(l, r) : l \in NTs, r \in [1..1 -> Ts] \cup [1..2 -> NTs]}

InitGen ==
    /\ alg = "cyk"
    /\ \E m \in 1..GenMaxRules : G \in [1..m -> GenRules]
    /\ start(G) = SymS
    /\ w \in Inputs(CykMaxLen)
    /\ check \in BOOLEAN
    /\ pc = "entry"
    /\ result = NoResult
    /\ ParserIdle /\ CnfIdle /\ tree = NoTree
    /\ T = <<>> /\ I = <<>> /\ j = 0 /\ stack = <<>> /\ pi = <<>>
    /\ SlrIdle
    /\ written = FALSE

NextGen == NextCYK \/ LeftParseFromTable

SpecGen == InitGen /\ [][NextGen]_vars

\* the rule of A with the smallest number among the rules A -> B C with B in
\* t[i][k] and C in t[i+k][j-k]
SmallestRule(g, tt, ix, jx, A, k) ==
    LET ms == {m \in 1..Len(g) :
                  /\ g[m].left_side = A /\ Len(g[m].right_side) = 2
                  /\ g[m].right_side[1] \in tt[ix][k]
                  /\ g[m].right_side[2] \in tt[ix + k][jx - k]}
    IN CHOOSE m \in ms : \A q \in ms : m <= q

\* the left parse by the smallest split and, at it, the smallest rule number
RECURSIVE SmallestParse(_, _, _, _, _, _)
SmallestParse(g, u, tt, ix, jx, A) ==
    IF jx = 1
    THEN LET p == ProductionRule(A, <<u[ix]>>) IN
         IF Contains(g, p) THEN <<IndexOf(g, p)>> ELSE ParseError
    ELSE LET ks == gen_splits(g, tt, ix, jx, A) IN
         IF ks = {} THEN ParseError
         ELSE LET k == CHOOSE x \in ks : \A y \in ks : x <= y
                  m == SmallestRule(g, tt, ix, jx, A, k)
              IN gen_concat(m, SmallestParse(g, u, tt, ix, k, g[m].right_side[1]),
                            SmallestParse(g, u, tt, ix + k, jx - k, g[m].right_side[2]))

\* C22: in left_parse_from_parse_table, for every span with j > 1 the rule
\* gen(i, j, A) emits is, at the smallest split k that has a rule A -> B C
\* with B in T[i, k] and C in T[i+k, j-k], the rule with the smallest
\* production number, so the left parse returned is the one of the smallest
\* choices on every run.
C22_GenPicksSmallest ==
    (alg = "cyk" /\ pc = "parsed" /\ result.kind = "parse") =>
        result.parse = SmallestParse(G, w, T, 1, Len(w), start(G))

\* an action occurs at most once in the list c
OccursOnce(c) == \A k, m \in 1..Len(c) : c[k] = c[m] => k = m

\* C23: every ACTION[i][a] cell of slr.ParsingTable(G) holds each action
\* (a given shift j, a given reduce p, accept) at most once.
C23_NoRepeatedAction ==
    SlrTableBuilt =>
        \A ix \in StateNumbers : \A a \in DOMAIN action[ix] : OccursOnce(action[ix][a])

(***************************************************************************)
(* What equivalence of two normal-form tables asks of the states matched   *)
(* by following equal symbols from the pair (0, 0) in both tables.         *)
(***************************************************************************)
NFSymbols(a, b) == a.terminals \cup a.nonterminals \cup b.terminals \cup b.nonterminals

\* the pairs of states matched by shifts and gotos on the same symbol
RECURSIVE MatchedStates(_, _, _)
MatchedStates(a, b, M) ==
    LET more == M \cup {<<get_gotoshifts(a, st[1], X), get_gotoshifts(b, st[2], X)>> :
                          st \in M, X \in {Y \in NFSymbols(a, b) :
                              \E p \in M : /\ get_gotoshifts(a, p[1], Y) # -1
                                           /\ get_gotoshifts(b, p[2], Y) # -1}}
        kept == {st \in more : st[1] # -1 /\ st[2] # -1}
    IN IF kept = M THEN M ELSE MatchedStates(a, b, kept)

\* the reductions of the cell (state, terminal) as a list
ReductionCell(t, state, a) == DictGet(DictGet(t.reductions, state, <<>>), a, <<>>)

Count(c, x) == Cardinality({k \in 1..Len(c) : c[k] = x})

SameMultiset(c, d) == \A x \in Range(c) \cup Range(d) : Count(c, x) = Count(d, x)

EqualReductionMultisets(a, b, M) ==
    \A st \in M : \A x \in a.terminals \cup b.terminals \cup {Dollar} :
        SameMultiset(ReductionCell(a, st[1], x), ReductionCell(b, st[2], x))

EqualAccepts(a, b, M) == \A st \in M : get_accepts(a, st[1]) = get_accepts(b, st[2])

ConsistentMatching(a, b, M) ==
    /\ \A st \in M, X \in NFSymbols(a, b) :
          (get_gotoshifts(a, st[1], X) = -1) = (get_gotoshifts(b, st[2], X) = -1)
    /\ \A p \in M, q \in M : p[1] = q[1] => p[2] = q[2]

\* C24: ParseTableNormalForm.equivalent returns true only if, for every pair
\* of matched states and every terminal, the reductions of the two cells are
\* equal as multisets, the accept entries of matched states are equal, and
\* the state matching induced by shifts and gotos is consistent.
C24_EquivalentOnlyIf ==
    (alg = "equivalent" /\ Done /\ result.ab) =>
        LET M == MatchedStates(args[1], args[2], {<<0, 0>>}) IN
        /\ EqualReductionMultisets(args[1], args[2], M)
        /\ EqualAccepts(args[1], args[2], M)
        /\ ConsistentMatching(args[1], args[2], M)

(***************************************************************************)
(* The ordering of symbols: Keyed.__lt__ compares the keys, tuples of the  *)
(* sort number and the identifier, as Python compares tuples and strings.  *)
(***************************************************************************)
\* ord(c) of the characters the identifiers are made of
ord(c) == CASE c = "$" -> 36 [] c = "A" -> 65 [] c = "a" -> 97

\* n < m on strings
RECURSIVE str_lt(_, _)
str_lt(n, m) ==
    IF m = <<>> THEN FALSE
    ELSE IF n = <<>> THEN TRUE
    ELSE IF Head(n) # Head(m) THEN ord(Head(n)) < ord(Head(m))
    ELSE str_lt(Tail(n), Tail(m))

\* k < l on the keys
key_lt(k, l) == k[1] < l[1] \/ (k[1] = l[1] /\ str_lt(k[2], l[2]))

\* Keyed.__lt__
Symbol_lt(x, y) == key_lt(key(x), key(y))

\* s < t, t < s, t < u, s < u and s == t on the symbols args = <<s, t, u>>
SymOrder ==
    /\ alg = "symbol_lt" /\ pc = "entry"
    /\ result' = [kind |-> "value",
                  st |-> Symbol_lt(args[1], args[2]),
                  ts |-> Symbol_lt(args[2], args[1]),
                  tu |-> Symbol_lt(args[2], args[3]),
                  su |-> Symbol_lt(args[1], args[3]),
                  eq |-> symbol_equals(args[1], args[2])]
    /\ pc' = "done"
    /\ NFUnchanged
    /\ UNCHANGED written

InitOrd ==
    /\ alg = "symbol_lt"
    /\ args \in Symbols \X Symbols \X Symbols
    /\ G = <<>> /\ w = <<>>
    /\ pc = "entry"
    /\ result = NoResult
    /\ ParserIdle /\ CnfIdle /\ tree = NoTree
    /\ check = TRUE /\ T = <<>> /\ I = <<>> /\ j = 0 /\ stack = <<>> /\ pi = <<>>
    /\ grammar = <<>> /\ Gp = <<>> /\ states = <<>> /\ transitions = <<>>
    /\ first_sets = <<>> /\ rules = <<>> /\ follow_sets = <<>>
    /\ action = <<>> /\ goto = <<>> /\ table = <<>>
    /\ written = FALSE

NextOrd == SymOrder

SpecOrd == InitOrd /\ [][NextOrd]_vars

\* C25: the ordering on symbols is total and agrees with equality: of two
\* symbols s and t that are not equal exactly one of s < t and t < s holds,
\* of two equal symbols neither holds, and s < t and t < u imply s < u.
C25_TotalOrder ==
    (alg = "symbol_lt" /\ Done) =>
        /\ ~result.eq => (result.st # result.ts)
        /\ result.eq => (~result.st /\ ~result.ts)
        /\ (result.st /\ result.tu) => result.su

(***************************************************************************)
(* left_recursive() and cyclic() when the vertices and the successors are  *)
(* visited in any order: a dict and a set are iterated in the order of the *)
(* hash values of their members.                                           *)
(***************************************************************************)
\* visit that takes a finished vertex for one on the current path
RECURSIVE visit_two_colours(_, _, _, _)
visit_two_colours(nodes, visiting, visited, edges) ==
    IF nodes = {} THEN {[found |-> FALSE, visited |-> visited]}
    ELSE UNION {
        IF node \in visiting \cup visited THEN {[found |-> TRUE, visited |-> visited]}
        ELSE UNION {
            IF r.found THEN {r}
            ELSE visit_two_colours(nodes \ {node}, visiting, r.visited \cup {node}, edges) :
            r \in visit_two_colours(edges[node], visiting \cup {node}, visited, edges)} :
        node \in nodes}

\* is_cyclic_multi.visit(nodes) for every order of iteration: the results
\* the call can return
RECURSIVE visit_any_order(_, _, _, _)
visit_any_order(nodes, visiting, visited, edges) ==
    IF nodes = {} THEN {[found |-> FALSE, visited |-> visited]}
    ELSE UNION {
        IF node \in visiting THEN {[found |-> TRUE, visited |-> visited]}
        ELSE IF node \in visited
        THEN visit_any_order(nodes \ {node}, visiting, visited, edges)
        ELSE UNION {
            IF r.found THEN {r}
            ELSE visit_any_order(nodes \ {node}, visiting, r.visited \cup {node}, edges) :
            r \in visit_any_order(edges[node], visiting \cup {node}, visited, edges)} :
        node \in nodes}

\* the edges _detect_cycle adds to the Digraph
cycle_edges(g, exact) ==
    {<<g[k].left_side, g[k].right_side[1]>> : k \in EdgeRules(g, exact)}

\* _detect_cycle: the values G.cyclic() can return
detect_cycle_any_order(g, exact) ==
    LET E == cycle_edges(g, exact)
        vs == {e[1] : e \in E} \cup {e[2] : e \in E}
        edges == [v \in vs |-> {e[2] : e \in {d \in E : d[1] = v}}]
    IN {r.found : r \in visit_any_order(vs, {}, {}, edges)}

\* G.left_recursive() and G.cyclic()
DetectCycles ==
    /\ alg = "detect_cycle" /\ pc = "entry"
    /\ \E lr \in detect_cycle_any_order(G, FALSE), cy \in detect_cycle_any_order(G, TRUE) :
          result' = [kind |-> "value", left_recursive |-> lr, cyclic |-> cy]
    /\ pc' = "done"
    /\ NFUnchanged
    /\ UNCHANGED written

CycMaxRules == 3

\* rules over S, A and C with at most two symbols on the right
CycRules ==
    {ProductionRule(l, r) : l \in CykNTs, r \in SeqsUpTo(CykNTs \cup {Syma}, 2)}

InitCyc ==
    /\ alg = "detect_cycle"
    /\ \E m \in 1..CycMaxRules : G \in [1..m -> CycRules]
    /\ w = <<>> /\ args = <<>>
    /\ pc = "entry"
    /\ result = NoResult
    /\ ParserIdle /\ CnfIdle /\ tree = NoTree
    /\ check = TRUE /\ T = <<>> /\ I = <<>> /\ j = 0 /\ stack = <<>> /\ pi = <<>>
    /\ grammar = <<>> /\ Gp = <<>> /\ states = <<>> /\ transitions = <<>>
    /\ first_sets = <<>> /\ rules = <<>> /\ follow_sets = <<>>
    /\ action = <<>> /\ goto = <<>> /\ table = <<>>
    /\ written = FALSE

NextCyc == DetectCycles

SpecCyc == InitCyc /\ [][NextCyc]_vars

\* the pairs joined by a path of one or more edges of E
RECURSIVE PathsOf(_)
PathsOf(R) ==
    LET next == R \cup {<<pq[1][1], pq[2][2]>> :
                            pq \in {x \in R \X R : x[1][2] = x[2][1]}}
    IN IF next = R THEN R ELSE PathsOf(next)

HasDirectedCycle(E) == \E pq \in PathsOf(E) : pq[1] = pq[2]

\* the graph with an edge from the left side to the first right-side symbol
\* of every production that begins with a nonterminal
FirstSymbolGraph(g) ==
    {<<g[k].left_side, g[k].right_side[1]>> :
        k \in {m \in 1..Len(g) : Len(g[m].right_side) >= 1
                                 /\ IsNonterminal(g[m].right_side[1])}}

\* the graph with an edge from the left side to X for every production whose
\* right side is the one nonterminal X
UnitGraph(g) ==
    {<<g[k].left_side, g[k].right_side[1]>> :
        k \in {m \in 1..Len(g) : Len(g[m].right_side) = 1
                                 /\ IsNonterminal(g[m].right_side[1])}}

\* C26: left_recursive() is true exactly when the graph of the first
\* right-side nonterminals has a directed cycle (a self-loop counts), and
\* cyclic() is true exactly when the graph of the productions with one
\* nonterminal on the right has one, in whatever order the vertices and
\* their successors are visited.
C26_CycleDetection ==
    (alg = "detect_cycle" /\ pc = "done") =>
        /\ result.left_recursive = HasDirectedCycle(FirstSymbolGraph(G))
        /\ result.cyclic = HasDirectedCycle(UnitGraph(G))

\* an acyclic graph in which a vertex is reached along two paths, and a
\* cycle that does not pass through the left side of the first rule
C26_Witness ==
    /\ alg = "detect_cycle" /\ pc = "done"
    /\ {<<SymS, SymA>>, <<SymS, SymC>>, <<SymA, SymC>>} = FirstSymbolGraph(G)
    /\ ~result.left_recursive

(***************************************************************************)
(* classify.py: is_cyclic, the cycle test that takes the nullable symbols  *)
(* into account.                                                           *)
(***************************************************************************)
\* rule.right_side[:i-1] + rule.right_side[i+1:] for the 0-based index i0; a
\* stop of -1 leaves out the last element
classify_others(right_side, i0) ==
    LET n == Len(right_side)
        stop == IF i0 = 0 THEN n - 1 ELSE IF i0 - 1 < n THEN i0 - 1 ELSE n
    IN SubSeq(right_side, 1, stop) \o SubSeq(right_side, i0 + 2, n)

\* the 0-based indices the loop over rule.right_side reaches: those before
\* the first symbol that is not a nonterminal
classify_reached(right_side) ==
    {i0 \in 0..(Len(right_side) - 1) :
        \A k \in 1..i0 : IsNonterminal(right_side[k])}

\* the edges is_cyclic adds to the Digraph
classify_edges(g, nullable) ==
    UNION {
        {<<g[k].left_side, g[k].right_side[i0 + 1]>> :
            i0 \in {m \in classify_reached(g[k].right_side) :
                       /\ IsNonterminal(g[k].right_side[m + 1])
                       /\ \A x \in Range(classify_others(g[k].right_side, m)) :
                             x \in nullable}} :
        k \in 1..Len(g)}

\* is_cyclic(grammar): the values the call can return
is_cyclic(g) ==
    LET nullable == table_first_sets(init_productions(g)).nullable
        E == classify_edges(g, nullable)
        vs == {e[1] : e \in E} \cup {e[2] : e \in E}
        edges == [v \in vs |-> {e[2] : e \in {d \in E : d[1] = v}}]
    IN {r.found : r \in visit_any_order(vs, {}, {}, edges)}

\* classify.is_cyclic(ContextFreeGrammar(G))
ClassifyIsCyclic ==
    /\ alg = "is_cyclic" /\ pc = "entry"
    /\ \E cy \in is_cyclic(G) :
          result' = [kind |-> "value", cyclic |-> cy]
    /\ pc' = "done"
    /\ NFUnchanged
    /\ UNCHANGED written

InitClassify ==
    /\ alg = "is_cyclic"
    /\ \E m \in 1..CycMaxRules : G \in [1..m -> CycRules]
    /\ w = <<>> /\ args = <<>>
    /\ pc = "entry"
    /\ result = NoResult
    /\ ParserIdle /\ CnfIdle /\ tree = NoTree
    /\ check = TRUE /\ T = <<>> /\ I = <<>> /\ j = 0 /\ stack = <<>> /\ pi = <<>>
    /\ grammar = <<>> /\ Gp = <<>> /\ states = <<>> /\ transitions = <<>>
    /\ first_sets = <<>> /\ rules = <<>> /\ follow_sets = <<>>
    /\ action = <<>> /\ goto = <<>> /\ table = <<>>
    /\ written = FALSE

NextClassify == ClassifyIsCyclic

SpecClassify == InitClassify /\ [][NextClassify]_vars

\* the steps A =>* X: a production A -> X_1 ... X_m gives the step to the
\* nonterminal X_i when every other symbol of its right side is nullable
UnitSteps(g) ==
    UNION {
        {<<g[k].left_side, g[k].right_side[n]>> :
            n \in {m \in 1..Len(g[k].right_side) :
                      /\ IsNonterminal(g[k].right_side[m])
                      /\ \A o \in 1..Len(g[k].right_side) :
                            o # m => g[k].right_side[o] \in Nullable(g)}} :
        k \in 1..Len(g)}

\* some nonterminal A derives itself in one or more steps
DerivesItself(g) == HasDirectedCycle(UnitSteps(g))

\* C27: classify.is_cyclic(G) is true exactly when some nonterminal derives
\* itself in one or more steps, a production contributing the step from its
\* left side to one of its right-side nonterminals only when every other
\* symbol of the right side is nullable.
C27_IsCyclic ==
    (alg = "is_cyclic" /\ pc = "done") => result.cyclic = DerivesItself(G)

\* the nullable set the call computes is the set of the nonterminals that
\* derive the empty string
NullableSetIsExact ==
    (alg = "is_cyclic" /\ pc = "done") =>
        table_first_sets(init_productions(G)).nullable = Nullable(G)

(***************************************************************************)
(* The nonterminals ChomskyNormalForm introduces, on grammars that already *)
(* hold subscripted nonterminals and a terminal with an upper-case name.   *)
(***************************************************************************)
SymS0 == SubscriptedNonterminal(<<"S">>, 0)

SymA1 == SubscriptedNonterminal(<<"A">>, 1)

\* Terminal('A')
SymUpperA == Terminal(<<"A">>)

FreshMaxRules == 2
FreshMaxRhs == 3

\* rules of S and S_0 over S_0, A_1, a and the terminal A
FreshRules ==
    {ProductionRule(l, r) :
        l \in {SymS, SymS0},
        r \in SeqsUpTo({SymS0, SymA1, Syma, SymUpperA}, FreshMaxRhs)}

InitFresh ==
    /\ alg = "cnf"
    /\ \E m \in 1..FreshMaxRules : G \in [1..m -> FreshRules]
    /\ w = <<>>
    /\ pc = "entry"
    /\ result = NoResult
    /\ ParserIdle /\ CnfIdle /\ tree = NoTree /\ ChartIdle
    /\ written = FALSE

SpecFresh == InitFresh /\ [][NextCNF]_vars

\* the nonterminals of G
GivenNonterminals == CFG_nonterminals(init_productions(G))

\* the proxy of the terminal t
ProxyOf(t) == proxy_rules[t].left_side

Proxies == {ProxyOf(t) : t \in DOMAIN proxy_rules}

\* the nonterminals of the result that the splitting of the long right
\* sides created: those that are neither of G nor the new start nor a proxy
SplitNonterminals == get_variables(productions) \ (GivenNonterminals \cup {S0} \cup Proxies)

\* the positions of the productions of the result with A on the left
RulesOf(A) == {k \in 1..Len(productions) : productions[k].left_side = A}

NewStartIsFresh == S0 \notin GivenNonterminals

ProxiesAreFresh == \A t \in DOMAIN proxy_rules : ProxyOf(t) \notin GivenNonterminals \cup {S0}

ProxiesAreDistinct ==
    \A t \in DOMAIN proxy_rules : \A u \in DOMAIN proxy_rules :
        t # u => ProxyOf(t) # ProxyOf(u)

\* a proxy stands on the left of its proxy rule only, and a nonterminal made
\* by a split on the left of the one rule that split made
IntroducedAreDistinct ==
    /\ \A t \in DOMAIN proxy_rules : \A k \in RulesOf(ProxyOf(t)) :
          productions[k] = proxy_rules[t]
    /\ \A V \in SplitNonterminals : Cardinality(RulesOf(V)) = 1

ResultStartIsNewStart == start(productions) = S0

\* C28: in the grammar ChomskyNormalForm(G) returns, the new start symbol,
\* the nonterminals created by the splitting of long right sides and the
\* proxies of the terminals are not nonterminals of G and differ from one
\* another, two different terminals never share a proxy, and the start
\* symbol of the result is the new start.
C28_FreshNonterminals ==
    CnfReturned =>
        /\ NewStartIsFresh
        /\ ProxiesAreFresh
        /\ ProxiesAreDistinct
        /\ IntroducedAreDistinct
        /\ ResultStartIsNewStart

\* the parts of C28, each alone
FreshPartStart == CnfReturned => NewStartIsFresh
FreshPartProxies == CnfReturned => ProxiesAreFresh
FreshPartShared == CnfReturned => ProxiesAreDistinct
FreshPartDistinct == CnfReturned => IntroducedAreDistinct
FreshPartResult == CnfReturned => ResultStartIsNewStart

(***************************************************************************)
(* Termination of the two backtrack parsers.  A call runs its loop without *)
(* interruption, so a step that is possible is taken: weak fairness of the *)
(* steps of the parsers.  A top-down run whose L1 reaches MaxAlpha entries *)
(* is followed no further: it stays in the loop.                           *)
(***************************************************************************)
SpecTerm == Init /\ [][Next]_vars /\ WF_vars(NextTD \/ NextBU)

\* the call has returned or raised
Stopped == pc \in {"done", "tree"}

\* C29: on every grammar that passes the entry checks and every input of
\* terminals of the grammar, topdown_backtrack_parse and
\* bottomup_backtrack_parse stop after finitely many configuration steps,
\* with a parse or with ParseError (ValueError is the result of a call that
\* does not pass the entry checks).
C29_Termination ==
    /\ <>Stopped
    /\ [](Done => result.kind \in {"parse", "ParseError", "ValueError"})

\* the bottom-up half of C29
BottomUpStops == (alg = "bottomup") => <>Stopped

\* the top-down half of C29
TopDownStops == (alg = "topdown") => <>Stopped

\* the pairs <<A, X>> where a production of A has the nonterminal X after a
\* nullable prefix
LeftCornerSteps(g) ==
    UNION {
        {<<g[k].left_side, g[k].right_side[n]>> :
            n \in {m \in 1..Len(g[k].right_side) :
                      /\ IsNonterminal(g[k].right_side[m])
                      /\ \A o \in 1..(m - 1) : g[k].right_side[o] \in Nullable(g)}} :
        k \in 1..Len(g)}

\* some nonterminal A derives a string that begins with A
DerivesLeftRecursion(g) == HasDirectedCycle(LeftCornerSteps(g))

\* the top-down runs that stay in the loop are runs on grammars with a left
\* recursion that left_recursive() does not see
LoopsOnlyOnHiddenLeftRecursion ==
    (alg = "topdown" /\ pc = "run" /\ Len(alpha) >= MaxAlpha) =>
        DerivesLeftRecursion(G) /\ ~left_recursive(G)

(***************************************************************************)
(* The configurations (s, i, alpha, beta) of topdown_backtrack_parse.      *)
(***************************************************************************)
\* the terminals on L1, in order
TerminalsOn(calpha) ==
    LET RECURSIVE tt(_)
        tt(q) == IF q = <<>> THEN <<>>
                 ELSE IF Head(q).alt = 0 THEN <<Head(q).sym>> \o tt(Tail(q))
                 ELSE tt(Tail(q))
    IN tt(calpha)

\* a configuration of the top-down parser has been computed
TopDownConfigured == alg = "topdown" /\ pc = "run"

PositionInRange == 1 <= i /\ i <= Len(w) + 1

MatchedPrefix == i >= 1 /\ i <= Len(w) + 1 /\ TerminalsOn(alpha) = Take(w, i - 1)

AlternatesExist ==
    \A k \in 1..Len(alpha) :
        alpha[k].alt # 0 =>
            /\ IsNonterminal(alpha[k].sym)
            /\ alpha[k].alt >= 1
            /\ alpha[k].alt <= Len(Alternates(G, alpha[k].sym))

EndMarkerLast == s # "t" => (Len(beta) >= 1 /\ Last(beta) = Dollar)

\* C30: in every configuration (s, i, alpha, beta) that topdown_backtrack_parse
\* reaches on an input of length n, 1 <= i <= n + 1, the terminals on alpha
\* read in order are w_1 ... w_(i-1), every entry (A, j) on alpha names an
\* existing alternate j of A, and beta ends with the end marker $ until the
\* accepting step.
C30_ConfigurationInvariant ==
    TopDownConfigured =>
        /\ PositionInRange
        /\ MatchedPrefix
        /\ AlternatesExist
        /\ EndMarkerLast

\* a configuration in the backtracking state with both input symbols matched
\* and a second alternate on L1
C30_Witness ==
    /\ TopDownConfigured
    /\ s = "b" /\ i = 3 /\ Len(w) = 2
    /\ \E k \in 1..Len(alpha) : alpha[k].alt = 2
    /\ \E k \in 1..Len(alpha) : alpha[k].alt = 0

\* the accepting configuration (t, n + 1, gamma, e)
AcceptingConfiguration ==
    (TopDownConfigured /\ s = "t") => (i = Len(w) + 1 /\ beta = <<>>)

====
